---- MODULE Spec2Model ----
(***************************************************************************)
(* Booking lifecycle and payment settlement of the evidive backend.        *)
(*                                                                         *)
(* The row store is the only shared state.  Every HTTP request is a        *)
(* process whose steps are the SQL statements of its handler; statements   *)
(* of different requests interleave freely, a single statement is atomic.  *)
(***************************************************************************)
EXTENDS Naturals, Integers, Sequences, FiniteSets, TLC

\* ------------------------------------------------------------------ bounds

\* number of requests one behaviour handles (concurrently or in sequence)
MaxReq == 3
\* rows the bookings table can hold
MaxBookings == 2
\* number of webhook deliveries one behaviour of SpecWebhook handles
MaxDeliveries == 4
\* number of requests one behaviour of SpecCreate handles
MaxCreateReq == 2
\* number of webhook deliveries one behaviour of SpecSettlement handles
MaxSettlements == 3
\* availability queries in one behaviour
MaxQueries == 2
\* checkout requests and account deliveries in one behaviour
MaxCheckouts == 3
\* checkout requests and payment deliveries in one behaviour
MaxPayments == 4
\* payout requests and admin requests in one behaviour
MaxPayouts == 3
\* transfers the processor creates in one behaviour
MaxTransfers == 2

\* ------------------------------------------------------------- constants

NULL == 0

\* error.rs: status codes of AppError::into_response, and the handlers' own
OK == 200
CREATED == 201
BAD_REQUEST == 400
FORBIDDEN == 403
NOT_FOUND == 404
CONFLICT == 409
INTERNAL_SERVER_ERROR == 500
\* no response sent yet
NoResp == NULL

Req == 1..MaxReq
BookingIds == 1..MaxBookings

Services == {"svc1"}
Dates == {"day1"}

\* Option<T>: None and Some(v)
None == <<>>
Some(v) == <<v>>
unwrap_or(opt, default) == IF opt = None THEN default ELSE opt[1]

\* Decimal values of money are counted in units of 1/10000, so that a price
\* with two decimals times a whole percentage divided by 100 stays exact, as
\* it is in rust_decimal
Decimal_from(n) == n * 10000

\* the days requests name, in calendar order; chrono::Utc::now().date_naive()
\* is the second of them
Calendar == <<"day0", "day1", "day2">>
today == "day1"
DayNumber(d) == CHOOSE i \in DOMAIN Calendar : Calendar[i] = d

Centers == {"c1", "c2"}

\* table services: svc1 has a minimum and no maximum, svc2 a maximum and no
\* minimum, svc3 has never been activated, svc4 is soft-deleted
services ==
    [svc1 |-> [center_id |-> "c1", price |-> Decimal_from(100),
               max_capacity |-> None, min_participants |-> Some(2),
               is_active |-> Some(TRUE), deleted_at |-> NULL],
     svc2 |-> [center_id |-> "c1", price |-> Decimal_from(99) \div 2,
               max_capacity |-> Some(1), min_participants |-> None,
               is_active |-> Some(TRUE), deleted_at |-> NULL],
     svc3 |-> [center_id |-> "c1", price |-> Decimal_from(30),
               max_capacity |-> Some(4), min_participants |-> Some(1),
               is_active |-> None, deleted_at |-> NULL],
     svc4 |-> [center_id |-> "c1", price |-> Decimal_from(30),
               max_capacity |-> Some(4), min_participants |-> Some(1),
               is_active |-> Some(TRUE), deleted_at |-> 1]]

\* table blocked_dates: (center_id, blocked_date)
blocked_dates == {<<"c1", "day2">>}

\* models/center.rs 38-39: the connected-account columns of table centers,
\* here with c1 not onboarded and c2 soft-deleted
InitialCenters ==
    [c1 |-> [stripe_account_id |-> None, stripe_onboarding_complete |-> None,
             deleted_at |-> NULL],
     c2 |-> [stripe_account_id |-> Some("acct_2"),
             stripe_onboarding_complete |-> Some(FALSE), deleted_at |-> 1]]

\* the payment processor before any session or transfer was created
NoStripe == [sessions |-> <<>>, transfers |-> <<>>]

\* t_platform_config: the values the row with key commission_rate can hold,
\* and no such row
NoValue == "no row"
ConfigValues == {"20", "10", "abc"}
\* check_availability's candidate hours are 8..17; two of them are enough
\* to tell one slot from another
TimeSlots == {8, 9}

\* payment intents of the payment processor; the metadata of each names the
\* booking whose checkout created it
PaymentIntents == {"pi_1", "pi_2"}
\* a payment intent of another product of the same processor account
ForeignPI == "pi_ext"
NoPI == "none"
NoBooking == NULL

\* bookings.rs 511-512, 525-527, 557: the booking_id checkout_booking puts in
\* the metadata of the session and of its payment intent
MetadataBooking(pi_id) ==
    CASE pi_id = "pi_1" -> 1
      [] pi_id = "pi_2" -> 2
      [] OTHER -> NoBooking

\* Stripe-Signature header of a webhook request
Signatures == {"missing", "tampered", "valid"}

\* SQLSTATE codes the store raises
UNIQUE_VIOLATION == "23505"
FK_VIOLATION == "23503"
NoErr == "ok"

VARIABLES
    bookings,      \* table bookings: sequence of rows, id = index
    transactions,  \* table transactions: sequence of rows
    requests,      \* the requests: handler, position, locals, response
    now,           \* the store's clock, the value of NOW()
    t_platform_config,  \* the value of the row with key commission_rate
    centers,       \* table centers: the connected-account columns of each row
    stripe         \* the payment processor: the sessions and transfers created

vars == <<bookings, transactions, requests, now, t_platform_config, centers,
          stripe>>

\* ------------------------------------------------------------------ rows

\* the row with the commission taken on the price of one participant
NewBooking_unit_commission(service_id, booking_date, time_slot, participants, unit_price, rate, at) ==
    LET total_price == unit_price * participants
        commission_amount == (unit_price * rate) \div 100
    IN  [service_id |-> service_id, booking_date |-> booking_date,
         time_slot |-> time_slot, participants |-> participants,
         unit_price |-> unit_price, total_price |-> total_price,
         commission_rate |-> rate, commission_amount |-> commission_amount,
         status |-> "pending",
         confirmed_at |-> NULL, cancelled_at |-> NULL,
         created_at |-> at, updated_at |-> at, deleted_at |-> NULL,
         price_scale |-> 2, purged |-> FALSE]

\* bookings.rs 188-191 and 193-213: the row create_booking inserts; rate is
\* a whole percentage, the prices are Decimal values; price_scale is the
\* number of decimal places with which the store returns the row's prices
\* (tests/bookings.rs 31-33: 100.00, 20.00, 20.00)
NewBooking(service_id, booking_date, time_slot, participants, unit_price, rate, at) ==
    LET total_price == unit_price * participants
        commission_amount == (total_price * rate) \div 100
    IN  [service_id |-> service_id, booking_date |-> booking_date,
         time_slot |-> time_slot, participants |-> participants,
         unit_price |-> unit_price, total_price |-> total_price,
         commission_rate |-> rate, commission_amount |-> commission_amount,
         status |-> "pending",
         confirmed_at |-> NULL, cancelled_at |-> NULL,
         created_at |-> at, updated_at |-> at, deleted_at |-> NULL,
         price_scale |-> 2, purged |-> FALSE]

\* the row with the platform fee not deducted from the vendor's amount
NewTransaction_fee_not_deducted(booking_id, pi_id, amount_total, commission_rate, at) ==
    LET amount == Decimal_from(amount_total) \div 100
        platform_fee == (amount * commission_rate) \div 100
        vendor_amount == amount
    IN  [booking_id |-> booking_id, stripe_payment_intent_id |-> pi_id,
         amount |-> amount, platform_fee |-> platform_fee,
         vendor_amount |-> vendor_amount,
         status |-> "succeeded", created_at |-> at, updated_at |-> at,
         deleted_at |-> NULL]

\* webhook.rs 185-186, 193-194 and 196-209: the row handle_checkout_completed
\* inserts for a session of amount_total cents
NewTransaction(booking_id, pi_id, amount_total, commission_rate, at) ==
    LET amount == Decimal_from(amount_total) \div 100
        platform_fee == (amount * commission_rate) \div 100
        vendor_amount == amount - platform_fee
    IN  [booking_id |-> booking_id, stripe_payment_intent_id |-> pi_id,
         amount |-> amount, platform_fee |-> platform_fee,
         vendor_amount |-> vendor_amount,
         status |-> "succeeded", created_at |-> at, updated_at |-> at,
         deleted_at |-> NULL]

\* a request that has not arrived yet
IdleRequest ==
    [kind |-> "none", pc |-> "idle", user |-> "other", booking_id |-> NoBooking,
     service_id |-> "svc1", center_id |-> "c1", booking_date |-> "day1",
     time_slot |-> 8, participants |-> 1, rate |-> None,
     value |-> NoValue, amount_total |-> None,
     status |-> "pending", sig |-> "missing", event |-> "none",
     pi_id |-> NoPI, todo |-> <<>>, seen |-> "none", rows |-> 0,
     fee |-> None, destination |-> None, account |-> "none",
     charges_enabled |-> None, available |-> FALSE, slots |-> {},
     free |-> {},
     amount |-> 0, scale |-> 0, balance |-> 0,
     err |-> NoErr, queries |-> 0, resp |-> NoResp]

\* ---------------------------------------------------------------- errors

\* error.rs: AppError::into_response
into_response(e) ==
    CASE e = "NotFound" -> NOT_FOUND
      [] e = "BadRequest" -> BAD_REQUEST
      [] e = "Forbidden" -> FORBIDDEN
      [] e = "Conflict" -> CONFLICT
      [] e = "Internal" -> INTERNAL_SERVER_ERROR

\* error.rs: impl From<sqlx::Error> for AppError, what `?` on a query does
from_sqlx_error(code) == "Internal"

\* ----------------------------------------------------------------- store

\* the non-deleted, non-cancelled bookings occupying a slot
SlotHolders(bs, service_id, booking_date, time_slot) ==
    {i \in DOMAIN bs :
        /\ bs[i].service_id = service_id
        /\ bs[i].booking_date = booking_date
        /\ bs[i].time_slot = time_slot
        /\ bs[i].status # "cancelled"
        /\ bs[i].deleted_at = NULL
        /\ ~bs[i].purged}

\* the store's uniqueness constraint on (service_id, booking_date, time_slot)
\* among non-cancelled rows: a table the statement would leave with two such
\* rows is refused with SQLSTATE 23505
BookingsUnique(bs) ==
    \A i, j \in DOMAIN bs :
        (i # j /\ i \in SlotHolders(bs, bs[j].service_id, bs[j].booking_date,
                                    bs[j].time_slot))
            => bs[j].status = "cancelled" \/ bs[j].deleted_at # NULL \/ bs[j].purged

\* the non-deleted transactions recorded for a payment intent
TransactionsOf(ts, pi_id) ==
    {i \in DOMAIN ts :
        ts[i].stripe_payment_intent_id = pi_id /\ ts[i].deleted_at = NULL}

\* the store's uniqueness constraint on stripe_payment_intent_id among
\* non-deleted rows
TransactionsUnique(ts) ==
    \A p \in PaymentIntents : Cardinality(TransactionsOf(ts, p)) <= 1

\* ------------------------------------------------------------- requests

\* request r arrives as q and answers at once, after n store statements
Answered(r, q, n, code) ==
    [requests EXCEPT ![r] = [q EXCEPT !.pc = "done", !.queries = n, !.resp = code]]

\* request r arrives as q and goes on to its statement pc after n statements
Arrived(r, q, n, pc) ==
    [requests EXCEPT ![r] = [q EXCEPT !.pc = pc, !.queries = n]]

\* requests arrive in the order of their numbers
CanStart(r) ==
    /\ requests[r].pc = "idle"
    /\ IF r = 1 THEN TRUE ELSE requests[r - 1].pc # "idle"

Pending(kind) == {r \in DOMAIN requests : requests[r].kind = kind /\ requests[r].pc # "done"}

\* --------------------------------------------------------- create_booking

\* bookings.rs 166-180: SELECT EXISTS(... status NOT IN ('cancelled') ...)
double_booking_exists(bs, service_id, booking_date, time_slot) ==
    SlotHolders(bs, service_id, booking_date, time_slot) # {}

\* bookings.rs 118-128: SELECT ... FROM services WHERE id = $1 AND
\* deleted_at IS NULL, fetch_optional
service_lookup(service_id) ==
    IF service_id \in DOMAIN services /\ services[service_id].deleted_at = NULL
    THEN Some(services[service_id]) ELSE None

\* a check that finds no date blocked
is_blocked_never(center_id, booking_date) == FALSE

\* bookings.rs 152-158: SELECT EXISTS(... FROM blocked_dates ...)
is_blocked(center_id, booking_date) == <<center_id, booking_date>> \in blocked_dates

\* bookings.rs 99-164: the checks of create_booking before the double-booking
\* check, in the order of the code; the error of the first that fails and the
\* number of store statements run, or "ok"
create_booking_validate(body) ==
    LET service == service_lookup(body.service_id) IN
    IF DayNumber(body.booking_date) < DayNumber(today)
    THEN [error |-> "BadRequest", queries |-> 0]
    ELSE IF body.participants < 1
    THEN [error |-> "BadRequest", queries |-> 0]
    ELSE IF service = None
    THEN [error |-> "NotFound", queries |-> 1]
    ELSE IF service[1].center_id # body.center_id
    THEN [error |-> "BadRequest", queries |-> 1]
    ELSE IF ~unwrap_or(service[1].is_active, FALSE)
    THEN [error |-> "BadRequest", queries |-> 1]
    ELSE IF body.participants > unwrap_or(service[1].max_capacity, 20)
    THEN [error |-> "BadRequest", queries |-> 1]
    ELSE IF body.participants < unwrap_or(service[1].min_participants, 1)
    THEN [error |-> "BadRequest", queries |-> 1]
    ELSE IF is_blocked(body.center_id, body.booking_date)
    THEN [error |-> "BadRequest", queries |-> 2]
    ELSE [error |-> "ok", queries |-> 2]

\* the request bodies of POST /bookings: every combination of an absent, a
\* bookable, an inactive and a deleted service, the right and the wrong
\* center, a past, a free and a blocked day, and participant counts around
\* the limits of the services
CreateBookingBodies ==
    [service_id : {"svc0", "svc1", "svc2", "svc3", "svc4"},
     center_id : Centers,
     booking_date : {"day0", "day1", "day2"},
     time_slot : {8},
     participants : {0, 1, 2, 21}]

\* the bodies that pass every check, on the slots of one service and day
ValidBodies ==
    [service_id : Services, center_id : {"c1"}, booking_date : Dates,
     time_slot : TimeSlots, participants : {2}]

\* bookings.rs 94-186: a POST /bookings arrives, is validated, and runs the
\* double-booking check
create_booking_check(r, body) ==
    /\ CanStart(r)
    /\ Len(bookings) + Cardinality(Pending("create_booking")) < MaxBookings
    /\ LET q == [IdleRequest EXCEPT !.kind = "create_booking", !.user = "client",
                     !.service_id = body.service_id, !.center_id = body.center_id,
                     !.booking_date = body.booking_date,
                     !.time_slot = body.time_slot,
                     !.participants = body.participants]
           checked == create_booking_validate(body)
       IN  requests' =
               IF checked.error # "ok"
               THEN Answered(r, q, checked.queries, into_response(checked.error))
               ELSE IF double_booking_exists(bookings, body.service_id,
                                             body.booking_date, body.time_slot)
               THEN Answered(r, q, 3, into_response("Conflict"))
               ELSE Arrived(r, q, 3, "rate")
    /\ UNCHANGED <<bookings, transactions, now, t_platform_config, centers, stripe>>

\* str::parse::<Decimal> on the values the configuration row holds
parse_decimal(v) ==
    CASE v = "20" -> Some(20)
      [] v = "10" -> Some(10)
      [] OTHER -> None

\* bookings.rs 20-33: platform_commission_rate on the value read
platform_commission_rate(stored) ==
    IF stored = NoValue
    THEN [error |-> "ok", rate |-> Some(20)]
    ELSE IF parse_decimal(stored) = None
    THEN [error |-> "Internal", rate |-> None]
    ELSE [error |-> "ok", rate |-> parse_decimal(stored)]

\* bookings.rs 188-190: the read of the platform's commission rate
create_booking_rate(r) ==
    /\ requests[r].kind = "create_booking"
    /\ requests[r].pc = "rate"
    /\ LET read == platform_commission_rate(t_platform_config) IN
        requests' =
            IF read.error # "ok"
            THEN [requests EXCEPT ![r].pc = "done", ![r].queries = @ + 1,
                                  ![r].value = t_platform_config,
                                  ![r].resp = into_response(read.error)]
            ELSE [requests EXCEPT ![r].pc = "insert", ![r].queries = @ + 1,
                                  ![r].value = t_platform_config,
                                  ![r].rate = read.rate]
    /\ UNCHANGED <<bookings, transactions, now, t_platform_config, centers, stripe>>

\* bookings.rs 191-229: the INSERT, `?` on its result, and the 201 response
create_booking_insert(r) ==
    /\ requests[r].kind = "create_booking"
    /\ requests[r].pc = "insert"
    /\ LET q == requests[r]
           inserted == Append(bookings,
                NewBooking(q.service_id, q.booking_date, q.time_slot,
                           q.participants, services[q.service_id].price,
                           q.rate[1], now))
       IN
        IF BookingsUnique(inserted)
        THEN /\ bookings' = inserted
             /\ now' = now + 1
             /\ requests' = [requests EXCEPT ![r].pc = "done",
                                ![r].queries = @ + 1,
                                ![r].rows = 1,
                                ![r].booking_id = Len(inserted),
                                ![r].resp = CREATED]
        ELSE /\ requests' = [requests EXCEPT ![r].pc = "done",
                                ![r].queries = @ + 1,
                                ![r].err = UNIQUE_VIOLATION,
                                ![r].resp = into_response(from_sqlx_error(UNIQUE_VIOLATION))]
             /\ UNCHANGED <<bookings, now>>
    /\ UNCHANGED <<transactions, t_platform_config, centers, stripe>>

\* ------------------------------------------------------------------- auth

\* middleware/auth.rs 75-93: the requester is a member of the booking's center
require_center_member(user) == user = "member"

\* middleware/auth.rs 62-73: the requester's profile has role admin_diver
require_admin(user) == user = "admin"

\* the table holds a row with this id: rows removed with DELETE keep their
\* place in the sequence and are marked purged
Exists(bs, id) == id \in DOMAIN bs /\ ~bs[id].purged

\* point lookup `WHERE id = $1 AND deleted_at IS NULL`
Found(bs, id) == Exists(bs, id) /\ bs[id].deleted_at = NULL

\* --------------------------------------------------------- cancel_booking

\* the check without its second disjunct
cancel_rejects_cancelled_only(status) == status = "cancelled"

\* bookings.rs 352: the statuses cancel_booking refuses after its read
cancel_rejects(status) == status = "cancelled" \/ status = "completed"

\* the UPDATE guarded like confirm's: WHERE id = $1 AND status = 'pending'
cancel_guard_pending_only(row) == row.status = "pending"

\* the UPDATE without its status guard: WHERE id = $1
cancel_guard_unguarded(row) == TRUE

\* bookings.rs 365: WHERE id = $1 AND status IN ('pending', 'confirmed')
cancel_guard(row) == row.status = "pending" \/ row.status = "confirmed"

\* bookings.rs 361-364: the SET clause
cancel_set(row, at) ==
    [row EXCEPT !.status = "cancelled", !.cancelled_at = at, !.updated_at = at]

\* bookings.rs 331-357: the request arrives, reads the booking, checks the
\* requester and the status read
cancel_booking_read(r) ==
    /\ CanStart(r)
    /\ \E id \in BookingIds, u \in {"client", "member", "other"} :
        LET q == [IdleRequest EXCEPT !.kind = "cancel_booking", !.user = u,
                                     !.booking_id = id]
        IN  requests' =
                IF ~Found(bookings, id)
                THEN Answered(r, q, 1, into_response("NotFound"))
                ELSE IF u # "client" /\ ~require_center_member(u)
                THEN Answered(r, q, 2, into_response("Forbidden"))
                ELSE LET seen == bookings[id].status
                         n == IF u = "client" THEN 1 ELSE 2
                     IN  IF cancel_rejects(seen)
                         THEN Answered(r, [q EXCEPT !.seen = seen], n,
                                       into_response("BadRequest"))
                         ELSE Arrived(r, [q EXCEPT !.seen = seen], n, "update")
    /\ UNCHANGED <<bookings, transactions, now, t_platform_config, centers, stripe>>

\* bookings.rs 359-382: the guarded UPDATE and the answer on its row count
cancel_booking_update(r) ==
    /\ requests[r].kind = "cancel_booking"
    /\ requests[r].pc = "update"
    /\ LET id == requests[r].booking_id IN
        IF Exists(bookings, id) /\ cancel_guard(bookings[id])
        THEN /\ bookings' = [bookings EXCEPT ![id] = cancel_set(@, now)]
             /\ now' = now + 1
             /\ requests' = [requests EXCEPT ![r].pc = "done",
                                ![r].queries = @ + 1, ![r].rows = 1,
                                ![r].resp = OK]
        ELSE /\ requests' = [requests EXCEPT ![r].pc = "done",
                                ![r].queries = @ + 1, ![r].rows = 0,
                                ![r].resp = into_response("Conflict")]
             /\ UNCHANGED <<bookings, now>>
    /\ UNCHANGED <<transactions, t_platform_config, centers, stripe>>

\* -------------------------------------------------------- confirm_booking

\* bookings.rs 402: the statuses confirm_booking refuses after its read
confirm_rejects(status) == status # "pending"

\* the UPDATE without its status guard: WHERE id = $1
confirm_guard_unguarded(row) == TRUE

\* bookings.rs 415: WHERE id = $1 AND status = 'pending'
confirm_guard(row) == row.status = "pending"

\* the SET clause without confirmed_at = NOW()
confirm_set_status_only(row, at) ==
    [row EXCEPT !.status = "confirmed", !.updated_at = at]

\* bookings.rs 411-414: the SET clause
confirm_set(row, at) ==
    [row EXCEPT !.status = "confirmed", !.confirmed_at = at, !.updated_at = at]

\* bookings.rs 387-407: the request arrives, reads the booking, checks the
\* requester and the status read
confirm_booking_read(r) ==
    /\ CanStart(r)
    /\ \E id \in BookingIds, u \in {"client", "member"} :
        LET q == [IdleRequest EXCEPT !.kind = "confirm_booking", !.user = u,
                                     !.booking_id = id]
        IN  requests' =
                IF ~Found(bookings, id)
                THEN Answered(r, q, 1, into_response("NotFound"))
                ELSE IF ~require_center_member(u)
                THEN Answered(r, q, 2, into_response("Forbidden"))
                ELSE LET seen == bookings[id].status IN
                     IF confirm_rejects(seen)
                     THEN Answered(r, [q EXCEPT !.seen = seen], 2,
                                   into_response("BadRequest"))
                     ELSE Arrived(r, [q EXCEPT !.seen = seen], 2, "update")
    /\ UNCHANGED <<bookings, transactions, now, t_platform_config, centers, stripe>>

\* bookings.rs 409-432: the guarded UPDATE and the answer on its row count
confirm_booking_update(r) ==
    /\ requests[r].kind = "confirm_booking"
    /\ requests[r].pc = "update"
    /\ LET id == requests[r].booking_id IN
        IF Exists(bookings, id) /\ confirm_guard(bookings[id])
        THEN /\ bookings' = [bookings EXCEPT ![id] = confirm_set(@, now)]
             /\ now' = now + 1
             /\ requests' = [requests EXCEPT ![r].pc = "done",
                                ![r].queries = @ + 1, ![r].rows = 1,
                                ![r].resp = OK]
        ELSE /\ requests' = [requests EXCEPT ![r].pc = "done",
                                ![r].queries = @ + 1, ![r].rows = 0,
                                ![r].resp = into_response("Conflict")]
             /\ UNCHANGED <<bookings, now>>
    /\ UNCHANGED <<transactions, t_platform_config, centers, stripe>>

\* ------------------------------------------------- admin: booking status

\* admin.rs 359-379: BookingStatusAction, the statuses the admin may set
BookingStatusAction == {"confirmed", "cancelled", "completed", "noshow"}

\* admin.rs 390-396: UPDATE bookings SET status = $1, updated_at = NOW()
\* WHERE id = $2 AND deleted_at IS NULL
admin_set(row, status, at) == [row EXCEPT !.status = status, !.updated_at = at]

\* an UPDATE of one booking row as the store executes it: the rows matched,
\* the new table, and the constraint violation that refuses the statement
UpdateBooking(bs, id, matches, row) ==
    IF ~(id \in DOMAIN bs /\ matches)
    THEN [rows |-> 0, err |-> NoErr, table |-> bs]
    ELSE LET updated == [bs EXCEPT ![id] = row] IN
         IF BookingsUnique(updated)
         THEN [rows |-> 1, err |-> NoErr, table |-> updated]
         ELSE [rows |-> 0, err |-> UNIQUE_VIOLATION, table |-> bs]

\* admin.rs 382-415: PATCH /admin/bookings/{id}/status
update_booking_status(r) ==
    /\ CanStart(r)
    /\ \E id \in BookingIds, st \in BookingStatusAction, u \in {"admin", "other"} :
        LET q == [IdleRequest EXCEPT !.kind = "update_booking_status",
                      !.user = u, !.booking_id = id, !.status = st]
            res == UpdateBooking(bookings, id, Found(bookings, id),
                       IF id \in DOMAIN bookings
                       THEN admin_set(bookings[id], st, now) ELSE q)
        IN  IF ~require_admin(u)
            THEN /\ requests' = Answered(r, q, 1, into_response("Forbidden"))
                 /\ UNCHANGED <<bookings, now>>
            ELSE /\ bookings' = res.table
                 /\ now' = IF res.rows = 1 THEN now + 1 ELSE now
                 /\ requests' = Answered(r,
                        [q EXCEPT !.rows = res.rows, !.err = res.err], 2,
                        IF res.err # NoErr
                        THEN into_response(from_sqlx_error(res.err))
                        ELSE IF res.rows = 0 THEN into_response("NotFound")
                        ELSE OK)
    /\ UNCHANGED <<transactions, t_platform_config, centers, stripe>>

\* admin_advanced.rs 581 and 592: UPDATE bookings SET status = 'completed',
\* updated_at = NOW() WHERE id = $1 AND deleted_at IS NULL
commission_paid_set(row, at) == [row EXCEPT !.status = "completed", !.updated_at = at]

\* admin_advanced.rs 579-584: POST /admin/commissions/{id}/pay
mark_commission_paid(r) ==
    /\ CanStart(r)
    /\ \E id \in BookingIds, u \in {"admin", "other"} :
        LET q == [IdleRequest EXCEPT !.kind = "mark_commission_paid",
                      !.user = u, !.booking_id = id]
            res == UpdateBooking(bookings, id, Found(bookings, id),
                       IF id \in DOMAIN bookings
                       THEN commission_paid_set(bookings[id], now) ELSE q)
        IN  IF ~require_admin(u)
            THEN /\ requests' = Answered(r, q, 1, into_response("Forbidden"))
                 /\ UNCHANGED <<bookings, now>>
            ELSE /\ bookings' = res.table
                 /\ now' = IF res.rows = 1 THEN now + 1 ELSE now
                 /\ requests' = Answered(r,
                        [q EXCEPT !.rows = res.rows, !.err = res.err], 2,
                        IF res.err # NoErr
                        THEN into_response(from_sqlx_error(res.err))
                        ELSE OK)
    /\ UNCHANGED <<transactions, t_platform_config, centers, stripe>>

\* the id lists of the bulk request bodies
CommissionIdLists == {<<a, b>> : a, b \in BookingIds} \ {<<a, a>> : a \in BookingIds}

\* admin_advanced.rs 589-595: bulk_pay_commissions, require_admin and the
\* first UPDATE of the loop
bulk_pay_commissions_first(r) ==
    /\ CanStart(r)
    /\ \E ids \in CommissionIdLists, u \in {"admin", "other"} :
        LET id == Head(ids)
            q == [IdleRequest EXCEPT !.kind = "bulk_pay_commissions",
                      !.user = u, !.booking_id = id, !.todo = Tail(ids)]
            res == UpdateBooking(bookings, id, Found(bookings, id),
                       IF id \in DOMAIN bookings
                       THEN commission_paid_set(bookings[id], now) ELSE q)
        IN  IF ~require_admin(u)
            THEN /\ requests' = Answered(r, q, 1, into_response("Forbidden"))
                 /\ UNCHANGED <<bookings, now>>
            ELSE /\ bookings' = res.table
                 /\ now' = IF res.rows = 1 THEN now + 1 ELSE now
                 /\ requests' =
                        IF res.err # NoErr
                        THEN Answered(r, [q EXCEPT !.err = res.err], 2,
                                      into_response(from_sqlx_error(res.err)))
                        ELSE Arrived(r, [q EXCEPT !.rows = res.rows], 2, "next")
    /\ UNCHANGED <<transactions, t_platform_config, centers, stripe>>

\* admin_advanced.rs 591-596: the following UPDATEs of the loop, and the answer
bulk_pay_commissions_next(r) ==
    /\ requests[r].kind = "bulk_pay_commissions"
    /\ requests[r].pc = "next"
    /\ LET q == requests[r]
           id == Head(q.todo)
           res == UpdateBooking(bookings, id, Found(bookings, id),
                      IF id \in DOMAIN bookings
                      THEN commission_paid_set(bookings[id], now) ELSE q)
       IN  /\ bookings' = res.table
           /\ now' = IF res.rows = 1 THEN now + 1 ELSE now
           /\ requests' = [requests EXCEPT ![r] =
                  [q EXCEPT !.booking_id = id,
                            !.todo = Tail(q.todo),
                            !.queries = @ + 1,
                            !.rows = @ + res.rows,
                            !.err = res.err,
                            !.pc = IF res.err # NoErr \/ Tail(q.todo) = <<>>
                                   THEN "done" ELSE "next",
                            !.resp = IF res.err # NoErr
                                     THEN into_response(from_sqlx_error(res.err))
                                     ELSE IF Tail(q.todo) = <<>> THEN OK
                                     ELSE NoResp]]
    /\ UNCHANGED <<transactions, t_platform_config, centers, stripe>>

\* ---------------------------------------------------------------- webhook

\* an extractor that only requires the header to be present
verify_signature_header_present(sig) == sig # "missing"

\* webhook.rs 21-59: the StripeEvent extractor lets the request through to
\* the handler only with a header that construct_event verifies
verify_signature(sig) == sig = "valid"

\* webhook.rs 31-37 and 48-55: the extractor's rejection
signature_rejection == BAD_REQUEST

\* webhook.rs 25-55: a delivery the extractor rejects; its body is never
\* parsed into an event
Unverified(sig) == [IdleRequest EXCEPT !.kind = "stripe_webhook", !.sig = sig]

\* webhook.rs 152-157: SELECT EXISTS(... stripe_payment_intent_id = $1 AND
\* deleted_at IS NULL)
already_exists(ts, pi_id) == TransactionsOf(ts, pi_id) # {}

\* the INSERT written as an upsert: ON CONFLICT (stripe_payment_intent_id)
\* DO UPDATE SET status = 'succeeded', updated_at = NOW()
InsertTransaction_upsert(ts, bs, row) ==
    IF ~Exists(bs, row.booking_id)
    THEN [err |-> FK_VIOLATION, table |-> ts]
    ELSE IF TransactionsOf(ts, row.stripe_payment_intent_id) # {}
    THEN [err |-> NoErr,
          table |-> [i \in DOMAIN ts |->
              IF i \in TransactionsOf(ts, row.stripe_payment_intent_id)
              THEN [ts[i] EXCEPT !.status = "succeeded",
                                 !.updated_at = row.updated_at]
              ELSE ts[i]]]
    ELSE [err |-> NoErr, table |-> Append(ts, row)]

\* webhook.rs 196-211: the INSERT as the store executes it
InsertTransaction(ts, bs, row) ==
    IF ~Exists(bs, row.booking_id)
    THEN [err |-> FK_VIOLATION, table |-> ts]
    ELSE IF ~TransactionsUnique(Append(ts, row))
    THEN [err |-> UNIQUE_VIOLATION, table |-> ts]
    ELSE [err |-> NoErr, table |-> Append(ts, row)]

\* a handler that acknowledges no insert error
is_fk_violation_never(err) == FALSE

\* a handler that acknowledges every insert error
is_fk_violation_any_error(err) == TRUE

\* webhook.rs 225-228: the insert errors the handler acknowledges
is_fk_violation(err) == err = FK_VIOLATION

\* session.amount_total, in cents, of the session of a payment intent
SessionAmount(pi_id) ==
    CASE pi_id = "pi_1" -> Some(20000)
      [] pi_id = "pi_2" -> Some(1999)
      [] OTHER -> None

\* the sessions whose checkout.session.completed events are delivered
CheckoutSessions ==
    {[pi_id |-> p, booking_id |-> MetadataBooking(p),
      amount_total |-> SessionAmount(p)] :
        p \in PaymentIntents \cup {ForeignPI}}
    \cup {[pi_id |-> NoPI, booking_id |-> 1, amount_total |-> Some(20000)]}

\* the payment intents whose payment_intent.succeeded events are delivered
PaymentIntentsSucceeded ==
    {[pi_id |-> p, booking_id |-> MetadataBooking(p)] :
        p \in PaymentIntents \cup {ForeignPI}}

\* webhook.rs 68-80, 109-165: a checkout.session.completed delivery arrives,
\* passes or fails the extractor, and runs up to the idempotency check
handle_checkout_completed_check(r, session) ==
    /\ CanStart(r)
    /\ \E sig \in Signatures :
        LET q == [IdleRequest EXCEPT !.kind = "stripe_webhook",
                      !.event = "checkout.session.completed", !.sig = sig,
                      !.pi_id = session.pi_id, !.booking_id = session.booking_id,
                      !.amount_total = session.amount_total]
        IN  requests' =
                IF ~verify_signature(sig)
                THEN Answered(r, Unverified(sig), 0, signature_rejection)
                ELSE IF session.booking_id = NoBooking \/ session.pi_id = NoPI
                THEN Answered(r, q, 0, OK)
                ELSE IF already_exists(transactions, session.pi_id)
                THEN Answered(r, q, 1, OK)
                ELSE Arrived(r, q, 1, "lookup")
    /\ UNCHANGED <<bookings, transactions, now, t_platform_config, centers, stripe>>

\* the lookup restricted to bookings that still await payment
booking_lookup_pending_only(bs, id) == Found(bs, id) /\ bs[id].status = "pending"

\* webhook.rs 167-172: SELECT commission_rate, currency FROM bookings
\* WHERE id = $1 AND deleted_at IS NULL
booking_lookup(bs, id) == Found(bs, id)

\* webhook.rs 167-183: the booking lookup
handle_checkout_completed_lookup(r) ==
    /\ requests[r].event = "checkout.session.completed"
    /\ requests[r].pc = "lookup"
    /\ requests' =
        IF booking_lookup(bookings, requests[r].booking_id)
        THEN [requests EXCEPT ![r].pc = "insert", ![r].queries = @ + 1,
                 ![r].rate = Some(bookings[requests[r].booking_id].commission_rate)]
        ELSE [requests EXCEPT ![r].pc = "done", ![r].queries = @ + 1,
                              ![r].resp = OK]
    /\ UNCHANGED <<bookings, transactions, now, t_platform_config, centers, stripe>>

\* webhook.rs 185-246 and 96: the INSERT and the answer on its result
handle_checkout_completed_insert(r) ==
    /\ requests[r].event = "checkout.session.completed"
    /\ requests[r].pc = "insert"
    /\ LET q == requests[r]
           res == InsertTransaction(transactions, bookings,
                      NewTransaction(q.booking_id, q.pi_id,
                                     unwrap_or(q.amount_total, 0),
                                     q.rate[1], now))
       IN  /\ transactions' = res.table
           /\ now' = IF res.err = NoErr THEN now + 1 ELSE now
           /\ requests' = [requests EXCEPT ![r].pc = "done",
                  ![r].queries = @ + 1,
                  ![r].err = res.err,
                  ![r].rows = IF res.err = NoErr THEN 1 ELSE 0,
                  ![r].resp = IF res.err = NoErr \/ is_fk_violation(res.err)
                              THEN OK ELSE into_response("Internal")]
    /\ UNCHANGED <<bookings, t_platform_config, centers, stripe>>

\* the UPDATE without its status guard: WHERE id = $1
payment_confirm_guard_unguarded(row) == TRUE

\* webhook.rs 289: WHERE id = $1 AND status = 'pending'
payment_confirm_guard(row) == row.status = "pending"

\* webhook.rs 285-288: the SET clause
payment_confirm_set(row, at) ==
    [row EXCEPT !.status = "confirmed", !.confirmed_at = at, !.updated_at = at]

\* webhook.rs 68-84, 255-310: a payment_intent.succeeded delivery
handle_payment_intent_succeeded(r, intent) ==
    /\ CanStart(r)
    /\ \E sig \in Signatures :
        LET id == intent.booking_id
            p == intent.pi_id
            q == [IdleRequest EXCEPT !.kind = "stripe_webhook",
                      !.event = "payment_intent.succeeded", !.sig = sig,
                      !.pi_id = p, !.booking_id = id]
            hit == Exists(bookings, id) /\ payment_confirm_guard(bookings[id])
        IN  IF ~verify_signature(sig)
            THEN /\ requests' = Answered(r, Unverified(sig), 0, signature_rejection)
                 /\ UNCHANGED <<bookings, now>>
            ELSE IF id = NoBooking
            THEN /\ requests' = Answered(r, q, 0, OK)
                 /\ UNCHANGED <<bookings, now>>
            ELSE IF hit
            THEN /\ bookings' = [bookings EXCEPT ![id] = payment_confirm_set(@, now)]
                 /\ now' = now + 1
                 /\ requests' = Answered(r, [q EXCEPT !.rows = 1], 1, OK)
            ELSE /\ requests' = Answered(r, q, 1, OK)
                 /\ UNCHANGED <<bookings, now>>
    /\ UNCHANGED <<transactions, t_platform_config, centers, stripe>>

\* webhook.rs 346-348: SET status = 'refunded', updated_at = NOW()
refund_set(row, at) == [row EXCEPT !.status = "refunded", !.updated_at = at]

\* webhook.rs 68-87, 318-370: a charge.refunded delivery
handle_charge_refunded(r, p) ==
    /\ CanStart(r)
    /\ \E sig \in Signatures :
        LET q == [IdleRequest EXCEPT !.kind = "stripe_webhook",
                      !.event = "charge.refunded", !.sig = sig, !.pi_id = p]
            hit == TransactionsOf(transactions, p)
        IN  IF ~verify_signature(sig)
            THEN /\ requests' = Answered(r, Unverified(sig), 0, signature_rejection)
                 /\ UNCHANGED <<transactions, now>>
            ELSE IF p = NoPI
            THEN /\ requests' = Answered(r, q, 0, OK)
                 /\ UNCHANGED <<transactions, now>>
            ELSE /\ transactions' = [i \in DOMAIN transactions |->
                        IF i \in hit THEN refund_set(transactions[i], now)
                        ELSE transactions[i]]
                 /\ now' = IF hit # {} THEN now + 1 ELSE now
                 /\ requests' = Answered(r,
                        [q EXCEPT !.rows = Cardinality(hit)], 1, OK)
    /\ UNCHANGED <<bookings, t_platform_config, centers, stripe>>

\* webhook.rs 68-78, 91-96: a delivery of an event type without a handler
handle_unhandled_event(r) ==
    /\ CanStart(r)
    /\ \E sig \in Signatures :
        LET q == [IdleRequest EXCEPT !.kind = "stripe_webhook",
                      !.event = "other", !.sig = sig]
        IN  requests' =
                IF ~verify_signature(sig)
                THEN Answered(r, Unverified(sig), 0, signature_rejection)
                ELSE Answered(r, q, 0, OK)
    /\ UNCHANGED <<bookings, transactions, now, t_platform_config, centers, stripe>>

\* ----------------------------------------------- platform configuration

\* Decimal::to_string on the rates the admin sends
to_string(rate) ==
    CASE rate = 10 -> "10"
      [] rate = 20 -> "20"

\* an update that also rewrites the commission of the bookings on record
update_commission_config_recalculating(r) ==
    /\ CanStart(r)
    /\ \E rate \in {10, 20} :
        /\ t_platform_config' = to_string(rate)
        /\ bookings' = [i \in DOMAIN bookings |->
                [bookings[i] EXCEPT !.commission_rate = rate,
                    !.commission_amount = (bookings[i].total_price * rate) \div 100]]
        /\ requests' = Answered(r,
                [IdleRequest EXCEPT !.kind = "update_commission_config",
                    !.user = "admin", !.value = to_string(rate), !.rows = 1],
                2, OK)
    /\ UNCHANGED <<transactions, now, centers, stripe>>

\* admin_advanced.rs 570-577: PUT /admin/commissions/config, an upsert of the
\* row with key commission_rate
update_commission_config(r) ==
    /\ CanStart(r)
    /\ \E rate \in {10, 20}, u \in {"admin", "other"} :
        LET q == [IdleRequest EXCEPT !.kind = "update_commission_config",
                      !.user = u, !.value = to_string(rate)]
        IN  IF ~require_admin(u)
            THEN /\ requests' = Answered(r, q, 1, into_response("Forbidden"))
                 /\ UNCHANGED t_platform_config
            ELSE /\ t_platform_config' = to_string(rate)
                 /\ requests' = Answered(r, [q EXCEPT !.rows = 1], 2, OK)
    /\ UNCHANGED <<bookings, transactions, now, centers, stripe>>

\* admin_settings.rs 93-124: PUT /admin/settings/commission_rate, an UPDATE
\* of the row if there is one
update_setting(r) ==
    /\ CanStart(r)
    /\ \E value \in ConfigValues, u \in {"admin", "other"} :
        LET q == [IdleRequest EXCEPT !.kind = "update_setting",
                      !.user = u, !.value = value]
        IN  IF ~require_admin(u)
            THEN /\ requests' = Answered(r, q, 1, into_response("Forbidden"))
                 /\ UNCHANGED t_platform_config
            ELSE IF t_platform_config = NoValue
            THEN /\ requests' = Answered(r, q, 2, into_response("NotFound"))
                 /\ UNCHANGED t_platform_config
            ELSE /\ t_platform_config' = value
                 /\ requests' = Answered(r, [q EXCEPT !.rows = 1], 2, OK)
    /\ UNCHANGED <<bookings, transactions, now, centers, stripe>>

\* ----------------------------------------------------- check_availability

\* bookings.rs 641: the candidate slots, 08:00 to 17:00 on the hour
SlotHours == 8..17

\* bookings.rs 597-598: NaiveDate::parse_from_str(&params.date, "%Y-%m-%d")
parse_from_str(date) == IF \E i \in DOMAIN Calendar : Calendar[i] = date
                        THEN Some(date) ELSE None

\* the query counting the cancelled bookings as well
booked_slots_any_status(bs, service_id, booking_date) ==
    {bs[i].time_slot : i \in {j \in DOMAIN bs :
        /\ bs[j].service_id = service_id
        /\ bs[j].booking_date = booking_date
        /\ bs[j].deleted_at = NULL
        /\ ~bs[j].purged}}

\* bookings.rs 628-638: SELECT time_slot FROM bookings WHERE service_id = $1
\* AND booking_date = $2 AND status NOT IN ('cancelled') AND deleted_at IS NULL
booked_slots(bs, service_id, booking_date) ==
    {bs[i].time_slot : i \in {j \in DOMAIN bs :
        /\ bs[j].service_id = service_id
        /\ bs[j].booking_date = booking_date
        /\ bs[j].status # "cancelled"
        /\ bs[j].deleted_at = NULL
        /\ ~bs[j].purged}}

\* the services and dates availability is asked for: svc0 is no service,
\* the last date does not parse
AvailabilityQueries ==
    {[service_id |-> sv, date |-> d] :
        sv \in {"svc0", "svc1", "svc2", "svc4"},
        d \in {"day1", "day2", "2024-13-45"}}

\* bookings.rs 593-658: GET /bookings/availability; the response lists the
\* hours in slots and marks those in free as available
check_availability(r) ==
    /\ CanStart(r)
    /\ \E params \in AvailabilityQueries :
        LET q == [IdleRequest EXCEPT !.kind = "check_availability",
                      !.service_id = params.service_id,
                      !.booking_date = params.date]
            service == service_lookup(params.service_id)
            booked == booked_slots(bookings, params.service_id, params.date)
        IN  requests' =
                IF parse_from_str(params.date) = None
                THEN Answered(r, q, 0, into_response("BadRequest"))
                ELSE IF service = None
                THEN Answered(r, q, 1, into_response("NotFound"))
                ELSE IF is_blocked(service[1].center_id, params.date)
                THEN Answered(r, [q EXCEPT !.available = FALSE, !.slots = {}],
                              2, OK)
                ELSE Answered(r, [q EXCEPT !.available = TRUE,
                                     !.slots = SlotHours,
                                     !.free = {h \in SlotHours : h \notin booked}],
                              3, OK)
    /\ UNCHANGED <<bookings, transactions, now, t_platform_config, centers, stripe>>

\* ------------------------------------------------------- checkout_booking

\* the characters of the decimal digits
DigitChars == <<"0", "1", "2", "3", "4", "5", "6", "7", "8", "9">>

RECURSIVE Pow10(_)
Pow10(n) == IF n = 0 THEN 1 ELSE 10 * Pow10(n - 1)

\* the decimal numeral of a natural number, a sequence of characters
RECURSIVE Digits(_)
Digits(n) ==
    IF n < 10 THEN <<DigitChars[n + 1]>>
    ELSE Digits(n \div 10) \o <<DigitChars[(n % 10) + 1]>>

\* the last width digits of n, zero-padded
RECURSIVE Fraction(_, _)
Fraction(n, width) ==
    IF width = 0 THEN <<>>
    ELSE Fraction(n \div 10, width - 1) \o <<DigitChars[(n % 10) + 1]>>

\* bookings.rs 440-441: a rust_decimal::Decimal, mantissa / 10^scale, as the
\* driver decodes it from a NUMERIC stored with scale decimal places
Decimal(units, scale) ==
    [mantissa |-> units \div Pow10(4 - scale), scale |-> scale]

\* bookings.rs 485: Decimal * Decimal; the product carries the scales' sum
Decimal_mul(a, b) ==
    [mantissa |-> a.mantissa * b.mantissa, scale |-> a.scale + b.scale]

\* bookings.rs 486: Decimal::to_string prints every decimal place of the scale
Decimal_to_string(d) ==
    IF d.scale = 0 THEN Digits(d.mantissa)
    ELSE Digits(d.mantissa \div Pow10(d.scale)) \o <<".">>
            \o Fraction(d.mantissa % Pow10(d.scale), d.scale)

RECURSIVE DigitsValue(_)
DigitsValue(str) ==
    IF str = <<>> THEN 0
    ELSE DigitsValue(SubSeq(str, 1, Len(str) - 1)) * 10
            + (CHOOSE d \in 0..9 : DigitChars[d + 1] = str[Len(str)])

\* bookings.rs 487: str::parse::<i64>, an optional sign and decimal digits
parse_i64(str) ==
    LET signed == str # <<>> /\ str[1] \in {"+", "-"}
        body == IF signed THEN Tail(str) ELSE str
    IN  IF body = <<>> \/ \E i \in DOMAIN body :
                                \A d \in DOMAIN DigitChars : DigitChars[d] # body[i]
        THEN None
        ELSE Some(IF signed /\ str[1] = "-" THEN 0 - DigitsValue(body)
                  ELSE DigitsValue(body))

\* bookings.rs 485-487 and 490-492: the price in cents,
\* (price * Decimal::from(100)).to_string().parse::<i64>()
to_cents(units, scale) ==
    parse_i64(Decimal_to_string(
        Decimal_mul(Decimal(units, scale), Decimal(Decimal_from(100), 0))))

\* the lookup that takes any connected account, onboarded or not
connect_account_id_any_account(cs, center_id) ==
    IF center_id \in DOMAIN cs /\ cs[center_id].deleted_at = NULL
    THEN cs[center_id].stripe_account_id ELSE None

\* bookings.rs 514-523: SELECT stripe_account_id, stripe_onboarding_complete
\* FROM centers WHERE id = $1 AND deleted_at IS NULL, and the match on it
connect_account_id(cs, center_id) ==
    IF center_id \in DOMAIN cs /\ cs[center_id].deleted_at = NULL
    THEN IF /\ cs[center_id].stripe_account_id # None
            /\ cs[center_id].stripe_onboarding_complete = Some(TRUE)
            /\ cs[center_id].stripe_account_id[1] # ""
         THEN cs[center_id].stripe_account_id
         ELSE None
    ELSE None

\* the order in which the processor hands out its payment intents
PaymentIntentOrder == <<"pi_1", "pi_2">>

\* the payment intent the processor links to its next session
NewPaymentIntent(st) == PaymentIntentOrder[Len(st.sessions) + 1]

\* bookings.rs 455-498: POST /bookings/{id}/checkout arrives, reads the
\* booking, checks the requester and the status, converts the prices
checkout_booking_read(r) ==
    /\ CanStart(r)
    /\ Len(stripe.sessions) + Cardinality(Pending("checkout_booking"))
            < Len(PaymentIntentOrder)
    /\ \E id \in BookingIds, u \in {"client", "other"} :
        LET q == [IdleRequest EXCEPT !.kind = "checkout_booking", !.user = u,
                                     !.booking_id = id]
        IN  requests' =
                IF ~Found(bookings, id)
                THEN Answered(r, q, 1, into_response("NotFound"))
                ELSE IF u # "client"
                THEN Answered(r, q, 1, into_response("Forbidden"))
                ELSE IF bookings[id].status # "pending"
                THEN Answered(r, [q EXCEPT !.seen = bookings[id].status], 1,
                              into_response("BadRequest"))
                ELSE LET row == bookings[id]
                         amount_cents == to_cents(row.total_price, row.price_scale)
                         commission_cents ==
                             to_cents(row.commission_amount, row.price_scale)
                         seen == [q EXCEPT !.seen = row.status,
                                     !.center_id = services[row.service_id].center_id,
                                     !.amount_total = amount_cents,
                                     !.fee = commission_cents]
                     IN  IF amount_cents = None \/ commission_cents = None
                         THEN Answered(r, seen, 1, into_response("Internal"))
                         ELSE Arrived(r, seen, 1, "session")
    /\ UNCHANGED <<bookings, transactions, now, t_platform_config, centers, stripe>>

\* a checkout that records the payment as soon as the session exists
checkout_booking_session_optimistic(r) ==
    /\ requests[r].kind = "checkout_booking"
    /\ requests[r].pc = "session"
    /\ LET q == requests[r]
           pi_id == NewPaymentIntent(stripe)
           session == [booking_id |-> q.booking_id, pi_id |-> pi_id,
                       amount_total |-> q.amount_total,
                       application_fee_amount |-> None, destination |-> None]
       IN  /\ stripe' = [stripe EXCEPT !.sessions = Append(@, session)]
           /\ transactions' = Append(transactions,
                  NewTransaction(q.booking_id, pi_id, q.amount_total[1], 20, now))
           /\ requests' = [requests EXCEPT ![r].pc = "done",
                  ![r].queries = @ + 1, ![r].pi_id = pi_id, ![r].resp = OK]
    /\ UNCHANGED <<bookings, now, t_platform_config, centers>>

\* bookings.rs 500-576: the center's connected account is read and the
\* processor is asked for the session, which it creates or refuses
checkout_booking_session(r) ==
    /\ requests[r].kind = "checkout_booking"
    /\ requests[r].pc = "session"
    /\ \E created \in BOOLEAN :
        LET q == requests[r]
            account == connect_account_id(centers, q.center_id)
            pi_id == NewPaymentIntent(stripe)
            session == [booking_id |-> q.booking_id, pi_id |-> pi_id,
                        amount_total |-> q.amount_total,
                        application_fee_amount |->
                            IF account # None THEN q.fee ELSE None,
                        destination |-> account]
        IN  IF created
            THEN /\ stripe' = [stripe EXCEPT !.sessions = Append(@, session)]
                 /\ requests' = [requests EXCEPT ![r].pc = "done",
                        ![r].queries = @ + 1, ![r].pi_id = pi_id,
                        ![r].destination = account, ![r].resp = OK]
            ELSE /\ requests' = [requests EXCEPT ![r].pc = "done",
                        ![r].queries = @ + 1,
                        ![r].resp = into_response("Internal")]
                 /\ UNCHANGED stripe
    /\ UNCHANGED <<bookings, transactions, now, t_platform_config, centers>>

\* the sessions created so far, as their checkout.session.completed events
\* describe them
CreatedSessions ==
    {[pi_id |-> stripe.sessions[i].pi_id,
      booking_id |-> stripe.sessions[i].booking_id,
      amount_total |-> stripe.sessions[i].amount_total] :
        i \in DOMAIN stripe.sessions}

\* their payment intents, as the payment_intent.succeeded events describe them
CreatedPaymentIntents ==
    {[pi_id |-> stripe.sessions[i].pi_id,
      booking_id |-> stripe.sessions[i].booking_id] :
        i \in DOMAIN stripe.sessions}

\* ----------------------------------------------------- account.updated

\* the connected accounts the processor reports on
ConnectedAccounts == {"acct_1", "acct_2"}

\* an update that marks the account onboarded whatever the event says
charges_enabled_of_always(account_charges_enabled) == TRUE

\* webhook.rs 389: account.charges_enabled.unwrap_or(false)
charges_enabled_of(account_charges_enabled) ==
    unwrap_or(account_charges_enabled, FALSE)

\* webhook.rs 68-90, 376-418: an account.updated delivery
handle_account_updated(r) ==
    /\ CanStart(r)
    /\ \E sig \in Signatures, account \in ConnectedAccounts,
          enabled \in {None, Some(FALSE), Some(TRUE)} :
        LET q == [IdleRequest EXCEPT !.kind = "stripe_webhook",
                      !.event = "account.updated", !.sig = sig,
                      !.account = account, !.charges_enabled = enabled]
            hit == {c \in DOMAIN centers :
                        /\ centers[c].stripe_account_id = Some(account)
                        /\ centers[c].deleted_at = NULL}
        IN  IF ~verify_signature(sig)
            THEN /\ requests' = Answered(r, Unverified(sig), 0, signature_rejection)
                 /\ UNCHANGED centers
            ELSE /\ centers' = [c \in DOMAIN centers |->
                        IF c \in hit
                        THEN [centers[c] EXCEPT !.stripe_onboarding_complete =
                                  Some(charges_enabled_of(enabled))]
                        ELSE centers[c]]
                 /\ requests' = Answered(r,
                        [q EXCEPT !.rows = Cardinality(hit)], 1, OK)
    /\ UNCHANGED <<bookings, transactions, now, t_platform_config, stripe>>

\* --------------------------------------------------------- request_payout

\* middleware/auth.rs 114-125: the requester's role in the center is owner
require_center_owner(user) == user = "owner"

\* the sum taken over the bookings of every status
RECURSIVE net_available_all_statuses(_, _)
net_available_all_statuses(bs, center_id) ==
    IF bs = <<>> THEN 0
    ELSE LET row == bs[Len(bs)]
             rest == net_available_all_statuses(SubSeq(bs, 1, Len(bs) - 1), center_id)
         IN  IF /\ services[row.service_id].center_id = center_id
                /\ row.deleted_at = NULL /\ ~row.purged
             THEN rest + (row.total_price - row.commission_amount)
             ELSE rest

\* payments.rs 270-283: SELECT SUM(b.total_price - b.commission_amount) FROM
\* bookings b WHERE b.center_id = $1 AND b.status = 'completed' AND
\* b.deleted_at IS NULL, with unwrap_or(Decimal::ZERO)
RECURSIVE net_available(_, _)
net_available(bs, center_id) ==
    IF bs = <<>> THEN 0
    ELSE LET row == bs[Len(bs)]
             rest == net_available(SubSeq(bs, 1, Len(bs) - 1), center_id)
         IN  IF /\ services[row.service_id].center_id = center_id
                /\ row.status = "completed"
                /\ row.deleted_at = NULL /\ ~row.purged
             THEN rest + (row.total_price - row.commission_amount)
             ELSE rest

\* payments.rs 78-82: the amounts of the request bodies, with the decimal
\* places they are written with: 0, 80, 160, 160.00 and 200
PayoutAmounts ==
    {[amount |-> Decimal_from(0), scale |-> 0],
     [amount |-> Decimal_from(80), scale |-> 0],
     [amount |-> Decimal_from(160), scale |-> 0],
     [amount |-> Decimal_from(160), scale |-> 2],
     [amount |-> Decimal_from(200), scale |-> 0]}

\* payments.rs 236-301: POST /payouts/request arrives and runs its checks up
\* to the conversion of the amount; the statements read tables centers and
\* bookings, of which only bookings is written while payouts are requested
request_payout_balance(r) ==
    /\ CanStart(r)
    /\ Len(stripe.transfers) + Cardinality(Pending("request_payout")) < MaxTransfers
    /\ \E u \in {"owner", "member"}, center_id \in Centers, body \in PayoutAmounts :
        LET q == [IdleRequest EXCEPT !.kind = "request_payout", !.user = u,
                      !.center_id = center_id, !.amount = body.amount,
                      !.scale = body.scale]
            center == IF centers[center_id].deleted_at = NULL
                      THEN Some(centers[center_id]) ELSE None
            balance == net_available(bookings, center_id)
            amount_cents == to_cents(body.amount, body.scale)
        IN  requests' =
                IF ~require_center_owner(u)
                THEN Answered(r, q, 1, into_response("Forbidden"))
                ELSE IF body.amount <= 0
                THEN Answered(r, q, 1, into_response("BadRequest"))
                ELSE IF center = None
                THEN Answered(r, q, 2, into_response("NotFound"))
                ELSE IF center[1].stripe_account_id = None
                THEN Answered(r, q, 2, into_response("BadRequest"))
                ELSE IF ~unwrap_or(center[1].stripe_onboarding_complete, FALSE)
                THEN Answered(r, q, 2, into_response("BadRequest"))
                ELSE IF body.amount > balance
                THEN Answered(r, [q EXCEPT !.balance = balance], 3,
                              into_response("BadRequest"))
                ELSE IF amount_cents = None
                THEN Answered(r, [q EXCEPT !.balance = balance], 3,
                              into_response("BadRequest"))
                ELSE Arrived(r, [q EXCEPT !.balance = balance,
                                    !.amount_total = amount_cents,
                                    !.destination = center[1].stripe_account_id],
                             3, "transfer")
    /\ UNCHANGED <<bookings, transactions, now, t_platform_config, centers, stripe>>

\* payments.rs 303-323: the processor is asked for the transfer, which it
\* creates or refuses
request_payout_transfer(r) ==
    /\ requests[r].kind = "request_payout"
    /\ requests[r].pc = "transfer"
    /\ \E created \in BOOLEAN :
        LET q == requests[r]
            transfer == [center_id |-> q.center_id, destination |-> q.destination,
                         amount |-> q.amount_total[1]]
        IN  IF created
            THEN /\ stripe' = [stripe EXCEPT !.transfers = Append(@, transfer)]
                 /\ requests' = [requests EXCEPT ![r].pc = "done", ![r].resp = CREATED]
            ELSE /\ requests' = [requests EXCEPT ![r].pc = "done",
                        ![r].resp = into_response("Internal")]
                 /\ UNCHANGED stripe
    /\ UNCHANGED <<bookings, transactions, now, t_platform_config, centers>>

\* ------------------------------------------------------------ maintenance

\* tests/bookings.rs 76-80: DELETE FROM bookings WHERE id = $1, the removal
\* of a booking that no transaction refers to
delete_booking(id) ==
    /\ Exists(bookings, id)
    /\ \A i \in DOMAIN transactions : transactions[i].booking_id # id
    /\ bookings' = [bookings EXCEPT ![id].purged = TRUE]
    /\ UNCHANGED <<transactions, requests, now, t_platform_config, centers, stripe>>

\* ------------------------------------------------------------------ spec

\* the store as one successful create_booking leaves it, or empty
InitialBookings ==
    {<<>>, <<NewBooking("svc1", "day1", 8, 2, services["svc1"].price, 20, 1)>>}

\* the store after two bookings were created under different platform rates
SettledBookings ==
    {<<NewBooking("svc1", "day1", 8, 2, services["svc1"].price, 20, 1)>>,
     <<NewBooking("svc1", "day1", 8, 2, services["svc1"].price, 20, 1),
       NewBooking("svc1", "day1", 9, 3, services["svc1"].price, 10, 1)>>}

\* the booking existed before any request of the behaviour arrived
Initial(id) == id \in DOMAIN bookings /\ bookings[id].created_at = 1

Init ==
    /\ bookings \in InitialBookings
    /\ transactions = <<>>
    /\ requests = [r \in Req |-> IdleRequest]
    /\ now = 2
    /\ t_platform_config = NoValue
    /\ centers = InitialCenters
    /\ stripe = NoStripe

\* the booking lifecycle: every request that writes the bookings table
Next ==
    \/ \E r \in DOMAIN requests : \E body \in ValidBodies :
            create_booking_check(r, body)
    \/ \E r \in DOMAIN requests : create_booking_rate(r)
    \/ \E r \in DOMAIN requests : create_booking_insert(r)
    \/ \E r \in DOMAIN requests : cancel_booking_read(r)
    \/ \E r \in DOMAIN requests : cancel_booking_update(r)
    \/ \E r \in DOMAIN requests : confirm_booking_read(r)
    \/ \E r \in DOMAIN requests : confirm_booking_update(r)
    \/ \E r \in DOMAIN requests : update_booking_status(r)
    \/ \E r \in DOMAIN requests : mark_commission_paid(r)
    \/ \E r \in DOMAIN requests : bulk_pay_commissions_first(r)
    \/ \E r \in DOMAIN requests : bulk_pay_commissions_next(r)
    \/ \E r \in DOMAIN requests : \E intent \in PaymentIntentsSucceeded :
            handle_payment_intent_succeeded(r, intent)

Spec == Init /\ [][Next]_vars

InitWebhook ==
    /\ bookings \in InitialBookings
    /\ transactions = <<>>
    /\ requests = [r \in 1..MaxDeliveries |-> IdleRequest]
    /\ now = 2
    /\ t_platform_config = NoValue
    /\ centers = InitialCenters
    /\ stripe = NoStripe

\* the webhook endpoint: deliveries of the payment processor's events
NextWebhook ==
    \/ \E r \in DOMAIN requests : \E session \in CheckoutSessions :
            handle_checkout_completed_check(r, session)
    \/ \E r \in DOMAIN requests : handle_checkout_completed_lookup(r)
    \/ \E r \in DOMAIN requests : handle_checkout_completed_insert(r)
    \/ \E r \in DOMAIN requests : \E intent \in PaymentIntentsSucceeded :
            handle_payment_intent_succeeded(r, intent)
    \/ \E r \in DOMAIN requests : \E p \in PaymentIntents \cup {NoPI} :
            handle_charge_refunded(r, p)
    \/ \E r \in DOMAIN requests : handle_unhandled_event(r)

SpecWebhook == InitWebhook /\ [][NextWebhook]_vars

InitCreate ==
    /\ bookings \in InitialBookings
    /\ transactions = <<>>
    /\ requests = [r \in 1..MaxCreateReq |-> IdleRequest]
    /\ now = 2
    /\ t_platform_config \in {NoValue, "20"}
    /\ centers = InitialCenters
    /\ stripe = NoStripe

\* booking creation under a changing platform configuration
NextCreate ==
    \/ \E r \in DOMAIN requests : \E body \in CreateBookingBodies :
            create_booking_check(r, body)
    \/ \E r \in DOMAIN requests : create_booking_rate(r)
    \/ \E r \in DOMAIN requests : create_booking_insert(r)
    \/ \E r \in DOMAIN requests : update_commission_config(r)
    \/ \E r \in DOMAIN requests : update_setting(r)

SpecCreate == InitCreate /\ [][NextCreate]_vars

InitSettlement ==
    /\ bookings \in SettledBookings
    /\ transactions = <<>>
    /\ requests = [r \in 1..MaxSettlements |-> IdleRequest]
    /\ now = 2
    /\ t_platform_config = NoValue
    /\ centers = InitialCenters
    /\ stripe = NoStripe

\* the webhook endpoint while bookings are removed from the store
NextSettlement ==
    \/ NextWebhook
    \/ \E id \in BookingIds : delete_booking(id)

SpecSettlement == InitSettlement /\ [][NextSettlement]_vars

\* the rows a table of bookings is made of: on either service, today or
\* yesterday, first or last slot, live, cancelled or soft-deleted
AvailabilityRows ==
    {[NewBooking(sv, d, h, 2, services[sv].price, 20, 1)
        EXCEPT !.status = st, !.deleted_at = del,
               !.cancelled_at = IF st = "cancelled" THEN 1 ELSE NULL] :
        sv \in {"svc1", "svc2"}, d \in {"day0", "day1"}, h \in {8, 17},
        st \in {"pending", "cancelled"}, del \in {NULL, 1}}

\* the tables of at most MaxBookings such rows the store admits
AvailabilityBookings ==
    {bs \in UNION {[1..n -> AvailabilityRows] : n \in 0..MaxBookings} :
        BookingsUnique(bs)}

InitAvailability ==
    /\ bookings \in AvailabilityBookings
    /\ transactions = <<>>
    /\ requests = [r \in 1..MaxQueries |-> IdleRequest]
    /\ now = 2
    /\ t_platform_config = NoValue
    /\ centers = InitialCenters
    /\ stripe = NoStripe

\* availability queries against a store no request writes
NextAvailability ==
    \E r \in DOMAIN requests : check_availability(r)

SpecAvailability == InitAvailability /\ [][NextAvailability]_vars

\* a booking at each status a checkout can meet, priced in whole units, with
\* two decimal places, or with a fraction of a cent in the commission
CheckoutBookings ==
    {<<[NewBooking("svc1", "day1", 8, 2, services["svc1"].price, 20, 1)
          EXCEPT !.status = st,
                 !.confirmed_at = IF st = "confirmed" THEN 1 ELSE NULL,
                 !.cancelled_at = IF st = "cancelled" THEN 1 ELSE NULL,
                 !.total_price = pr.total_price,
                 !.commission_amount = pr.commission_amount,
                 !.price_scale = pr.price_scale]>> :
        st \in {"pending", "confirmed", "cancelled"},
        pr \in {[total_price |-> Decimal_from(200), price_scale |-> 0,
                 commission_amount |-> Decimal_from(40)],
                [total_price |-> Decimal_from(200), price_scale |-> 2,
                 commission_amount |-> Decimal_from(40)],
                [total_price |-> Decimal_from(1999) \div 100, price_scale |-> 2,
                 commission_amount |-> Decimal_from(4)],
                [total_price |-> Decimal_from(1999) \div 100, price_scale |-> 3,
                 commission_amount |-> Decimal_from(3998) \div 1000]}}

\* table centers with every value the two nullable columns of c1 can hold
CheckoutCenters ==
    {[InitialCenters EXCEPT !["c1"].stripe_account_id = acct,
                            !["c1"].stripe_onboarding_complete = flag] :
        acct \in {None, Some(""), Some("acct_1")},
        flag \in {None, Some(FALSE), Some(TRUE)}}

InitCheckout ==
    /\ bookings \in CheckoutBookings
    /\ transactions = <<>>
    /\ requests = [r \in 1..MaxCheckouts |-> IdleRequest]
    /\ now = 2
    /\ t_platform_config = NoValue
    /\ centers \in CheckoutCenters
    /\ stripe = NoStripe

\* checkout while the processor reports on the centers' accounts
NextCheckout ==
    \/ \E r \in DOMAIN requests : checkout_booking_read(r)
    \/ \E r \in DOMAIN requests : checkout_booking_session(r)
    \/ \E r \in DOMAIN requests : handle_account_updated(r)

SpecCheckout == InitCheckout /\ [][NextCheckout]_vars

\* a pending booking priced in whole units and a cancelled one
PaymentBookings ==
    <<[NewBooking("svc1", "day1", 8, 2, services["svc1"].price, 20, 1)
         EXCEPT !.price_scale = 0],
      [NewBooking("svc1", "day1", 9, 2, services["svc1"].price, 20, 1)
         EXCEPT !.price_scale = 0, !.status = "cancelled", !.cancelled_at = 1]>>

InitPayment ==
    /\ bookings = PaymentBookings
    /\ transactions = <<>>
    /\ requests = [r \in 1..MaxPayments |-> IdleRequest]
    /\ now = 2
    /\ t_platform_config = NoValue
    /\ centers = InitialCenters
    /\ stripe = NoStripe

\* checkout and the deliveries of the events of the sessions it created
NextPayment ==
    \/ \E r \in DOMAIN requests : checkout_booking_read(r)
    \/ \E r \in DOMAIN requests : checkout_booking_session(r)
    \/ \E r \in DOMAIN requests : \E session \in CreatedSessions :
            handle_checkout_completed_check(r, session)
    \/ \E r \in DOMAIN requests : handle_checkout_completed_lookup(r)
    \/ \E r \in DOMAIN requests : handle_checkout_completed_insert(r)
    \/ \E r \in DOMAIN requests : \E intent \in CreatedPaymentIntents :
            handle_payment_intent_succeeded(r, intent)
    \/ \E r \in DOMAIN requests : \E session \in CreatedSessions :
            handle_charge_refunded(r, session.pi_id)

SpecPayment == InitPayment /\ [][NextPayment]_vars

\* a completed booking of net revenue 160, alone or with a confirmed one
PayoutBookings ==
    {<<[NewBooking("svc1", "day0", 8, 2, services["svc1"].price, 20, 1)
          EXCEPT !.status = "completed"]>>,
     <<[NewBooking("svc1", "day0", 8, 2, services["svc1"].price, 20, 1)
          EXCEPT !.status = "completed"],
       [NewBooking("svc1", "day1", 8, 2, services["svc1"].price, 20, 1)
          EXCEPT !.status = "confirmed", !.confirmed_at = 1]>>}

\* table centers with c1 without account, not yet onboarded, or onboarded
PayoutCenters ==
    {InitialCenters,
     [InitialCenters EXCEPT !["c1"].stripe_account_id = Some("acct_1"),
                            !["c1"].stripe_onboarding_complete = Some(FALSE)],
     [InitialCenters EXCEPT !["c1"].stripe_account_id = Some("acct_1"),
                            !["c1"].stripe_onboarding_complete = Some(TRUE)]}

InitPayout ==
    /\ bookings \in PayoutBookings
    /\ transactions = <<>>
    /\ requests = [r \in 1..MaxPayouts |-> IdleRequest]
    /\ now = 2
    /\ t_platform_config = NoValue
    /\ centers \in PayoutCenters
    /\ stripe = NoStripe

\* payout requests while the admin marks commissions paid
NextPayout ==
    \/ \E r \in DOMAIN requests : request_payout_balance(r)
    \/ \E r \in DOMAIN requests : request_payout_transfer(r)
    \/ \E r \in DOMAIN requests : mark_commission_paid(r)

SpecPayout == InitPayout /\ [][NextPayout]_vars

\* ---------------------------------------------------------------- claims

Done(r) == requests[r].pc = "done"
Started(r) == requests[r].pc # "idle"
IsCreate(r) == requests[r].kind = "create_booking"
IsCancel(r) == requests[r].kind = "cancel_booking"
IsConfirm(r) == requests[r].kind = "confirm_booking"
IsDelivery(r, event) ==
    requests[r].kind = "stripe_webhook" /\ requests[r].event = event

\* C1: every (service, date, time slot) triple holds at most one non-deleted
\* booking that is not cancelled, and every creation request for a triple is
\* answered with 201 (the one that got the slot) or with the conflict error
\* 409 (all the others), also when the requests run concurrently.
C1_OneBookingPerSlot ==
    /\ \A s \in Services, d \in Dates, t \in TimeSlots :
        Cardinality(SlotHolders(bookings, s, d, t)) <= 1
    /\ \A r \in DOMAIN requests :
        (IsCreate(r) /\ Done(r)) => requests[r].resp \in {CREATED, CONFLICT}

\* C2: a creation request whose INSERT the slot uniqueness constraint
\* rejected is answered with the conflict response 409.
C2_UniqueViolationIsConflict ==
    \A r \in DOMAIN requests :
        (IsCreate(r) /\ Done(r) /\ requests[r].err = UNIQUE_VIOLATION)
            => requests[r].resp = CONFLICT

\* the terminal states of the booking state machine
Terminal == {"cancelled", "completed"}

\* C3: the booking state machine has no transition out of cancelled or
\* completed: no step of any request (cancel, confirm, the payment webhook,
\* the admin status update, marking a commission paid) changes the status of
\* a booking that is cancelled or completed.
C3_TerminalStatusIsFinal ==
    [][\A id \in DOMAIN bookings :
        bookings[id].status \in Terminal
            => bookings'[id].status = bookings[id].status]_vars

\* request r may write the row of booking id
MayWrite(r, id) ==
    \/ /\ requests[r].kind \in {"cancel_booking", "confirm_booking",
                                "update_booking_status", "mark_commission_paid"}
       /\ requests[r].booking_id = id
    \/ requests[r].kind = "bulk_pay_commissions"
    \/ IsDelivery(r, "payment_intent.succeeded") /\ requests[r].booking_id = id

\* no started request outside R may write the row of booking id
OnlyWriters(id, R) ==
    \A r \in DOMAIN requests \ R : Started(r) => ~MayWrite(r, id)

\* a confirm_booking request that read status pending and ran its UPDATE
ConfirmUpdated(r) == IsConfirm(r) /\ Done(r) /\ requests[r].seen = "pending"

\* C4: of two confirm_booking requests that both read the same booking as
\* pending and both ran their guarded UPDATE, exactly one changed the row and
\* was answered 200, the other changed nothing and was answered 409; and no
\* step overwrites a confirmed_at that is already set.
C4_ConfirmRaceHasOneWinner ==
    /\ [](\A r1, r2 \in DOMAIN requests :
            (/\ r1 # r2
             /\ ConfirmUpdated(r1) /\ ConfirmUpdated(r2)
             /\ requests[r1].booking_id = requests[r2].booking_id
             /\ OnlyWriters(requests[r1].booking_id, {r1, r2}))
            => /\ requests[r1].rows + requests[r2].rows = 1
               /\ {requests[r1].resp, requests[r2].resp} = {OK, CONFLICT}
               /\ requests[r1].rows = 1 <=> requests[r1].resp = OK
               /\ bookings[requests[r1].booking_id].status = "confirmed"
               /\ bookings[requests[r1].booking_id].confirmed_at # NULL)
    /\ [][\A id \in DOMAIN bookings :
            bookings[id].confirmed_at # NULL
                => bookings'[id].confirmed_at = bookings[id].confirmed_at]_vars

C4_Witness ==
    \E r1, r2 \in DOMAIN requests :
        /\ ConfirmUpdated(r1) /\ ConfirmUpdated(r2)
        /\ requests[r1].booking_id = requests[r2].booking_id
        /\ OnlyWriters(requests[r1].booking_id, {r1, r2})
        /\ requests[r1].resp = OK
        /\ requests[r2].resp = CONFLICT

\* a confirmation of booking id: confirm_booking by a center member, or a
\* verified payment_intent.succeeded delivery
IsConfirmation(r, id) ==
    /\ requests[r].booking_id = id
    /\ \/ IsConfirm(r) /\ requests[r].seen # "none"
       \/ IsDelivery(r, "payment_intent.succeeded")

\* a cancel of booking id that read it as pending, and a confirmation of it,
\* both answered, with no other writer of the row
CancelMeetsConfirmation(rc, rf, id) ==
    /\ IsCancel(rc) /\ Done(rc)
    /\ requests[rc].booking_id = id
    /\ requests[rc].seen = "pending"
    /\ IsConfirmation(rf, id) /\ Done(rf)
    /\ OnlyWriters(id, {rc, rf})

\* C5 as stated: of a cancel and a confirmation that meet on a pending
\* booking, exactly one changes the row; they never both change it.
C5_ExactlyOneChangesTheRow ==
    \A rc, rf \in DOMAIN requests : \A id \in DOMAIN bookings :
        CancelMeetsConfirmation(rc, rf, id)
            => (requests[rc].rows = 1) # (requests[rf].rows = 1)

\* C5 as amended: the cancel always changes the row and the booking ends
\* cancelled; the confirmation changes the row exactly when its UPDATE is
\* applied before the cancel's (both then change it, confirmed first), and
\* otherwise it changes nothing and sees a no-op (webhook, 200) or a
\* rejection (confirm_booking, 409 or 400).
C5_CancelWinsConfirmationMayPrecede ==
    \A rc, rf \in DOMAIN requests : \A id \in DOMAIN bookings :
        CancelMeetsConfirmation(rc, rf, id)
            => /\ requests[rc].rows = 1
               /\ requests[rc].resp = OK
               /\ bookings[id].status = "cancelled"
               /\ bookings[id].cancelled_at # NULL
               /\ requests[rf].rows = 1
                    => /\ bookings[id].confirmed_at # NULL
                       /\ bookings[id].confirmed_at < bookings[id].cancelled_at
                       /\ requests[rf].resp = OK
               /\ requests[rf].rows = 0
                    => /\ bookings[id].confirmed_at = NULL
                       /\ requests[rf].resp =
                            IF IsConfirm(rf)
                            THEN (IF requests[rf].seen = "pending"
                                  THEN CONFLICT ELSE BAD_REQUEST)
                            ELSE OK

C5_Witness ==
    \E rc, rf \in DOMAIN requests : \E id \in DOMAIN bookings :
        /\ CancelMeetsConfirmation(rc, rf, id)
        /\ requests[rc].rows = 1
        /\ requests[rf].rows = 1

\* C6: a delivery whose Stripe-Signature header is missing or does not
\* verify is answered 400 at once, without a single store statement and
\* without any event handler; the step that answers it leaves the bookings
\* and transactions tables as they were.
C6_UnverifiedDeliveryTouchesNothing ==
    /\ [](\A r \in DOMAIN requests :
            (requests[r].kind = "stripe_webhook" /\ requests[r].sig # "valid")
            => /\ Done(r)
               /\ requests[r].resp = BAD_REQUEST
               /\ requests[r].queries = 0
               /\ requests[r].rows = 0
               /\ requests[r].event = "none")
    /\ [][\A r \in DOMAIN requests :
            (/\ requests'[r] # requests[r]
             /\ requests'[r].kind = "stripe_webhook"
             /\ requests'[r].sig # "valid")
            => bookings' = bookings /\ transactions' = transactions]_vars

C6_Witness ==
    /\ bookings # <<>>
    /\ \E r1, r2 \in DOMAIN requests :
        /\ requests[r1].kind = "stripe_webhook" /\ requests[r1].sig = "missing"
        /\ requests[r1].resp = BAD_REQUEST
        /\ requests[r2].kind = "stripe_webhook" /\ requests[r2].sig = "tampered"
        /\ requests[r2].resp = BAD_REQUEST

\* a verified checkout.session.completed delivery for payment intent p that
\* found the transaction recorded or ran the INSERT
Recorded(r, p) ==
    /\ IsDelivery(r, "checkout.session.completed")
    /\ requests[r].pi_id = p
    /\ Done(r)
    /\ requests[r].queries \in {1, 3}

\* C7: a payment intent never has more than one non-deleted transaction;
\* once a delivery of its checkout.session.completed event has been handled
\* it has exactly one; and no step of a delivery of that event changes the
\* store when a transaction for the payment intent is already recorded.
C7_OneTransactionPerPaymentIntent ==
    /\ [](\A p \in PaymentIntents :
            /\ Cardinality(TransactionsOf(transactions, p)) <= 1
            /\ (\E r \in DOMAIN requests : Recorded(r, p))
                => Cardinality(TransactionsOf(transactions, p)) = 1)
    /\ [][\A r \in DOMAIN requests :
            (/\ requests'[r] # requests[r]
             /\ requests'[r].event = "checkout.session.completed"
             /\ TransactionsOf(transactions, requests'[r].pi_id) # {})
            => bookings' = bookings /\ transactions' = transactions]_vars

C7_Witness ==
    \E r1, r2 \in DOMAIN requests :
        /\ r1 # r2
        /\ Recorded(r1, "pi_1") /\ requests[r1].queries = 3
        /\ Recorded(r2, "pi_1") /\ requests[r2].queries = 3
        /\ \E r3 \in DOMAIN requests :
            Recorded(r3, "pi_1") /\ requests[r3].queries = 1

\* C8: a checkout.session.completed delivery whose INSERT the uniqueness
\* constraint on the payment intent rejected is acknowledged with 200.
C8_DuplicateInsertIsAcknowledged ==
    \A r \in DOMAIN requests :
        (/\ IsDelivery(r, "checkout.session.completed")
         /\ Done(r)
         /\ requests[r].err = UNIQUE_VIOLATION)
        => requests[r].resp = OK

\* some verified delivery of event for payment intent p has been handled
Handled(event, p) ==
    \E r \in DOMAIN requests :
        IsDelivery(r, event) /\ requests[r].pi_id = p /\ Done(r)

\* C9: for a booking that was pending before the deliveries began, once its
\* checkout.session.completed and its payment_intent.succeeded event have
\* each been handled at least once, in whatever order and however often, and
\* no refund was delivered, the booking is confirmed and its payment intent
\* has exactly one transaction, with status succeeded.
C9_DeliveryOrderDoesNotMatter ==
    \A p \in PaymentIntents :
        (/\ Initial(MetadataBooking(p))
         /\ Handled("checkout.session.completed", p)
         /\ Handled("payment_intent.succeeded", p)
         /\ \A r \in DOMAIN requests :
                ~(IsDelivery(r, "charge.refunded") /\ requests[r].pi_id = p))
        => /\ bookings[MetadataBooking(p)].status = "confirmed"
           /\ bookings[MetadataBooking(p)].confirmed_at # NULL
           /\ Cardinality(TransactionsOf(transactions, p)) = 1
           /\ \A i \in TransactionsOf(transactions, p) :
                /\ transactions[i].status = "succeeded"
                /\ transactions[i].booking_id = MetadataBooking(p)

\* both events delivered twice, the payment_intent.succeeded event first
C9_Witness ==
    /\ \E r1, r2 \in DOMAIN requests :
        /\ r1 # r2
        /\ IsDelivery(r1, "checkout.session.completed") /\ Done(r1)
        /\ IsDelivery(r2, "checkout.session.completed") /\ Done(r2)
        /\ requests[r1].pi_id = "pi_1" /\ requests[r2].pi_id = "pi_1"
    /\ \E r1, r2 \in DOMAIN requests :
        /\ r1 # r2
        /\ IsDelivery(r1, "payment_intent.succeeded") /\ Done(r1)
        /\ IsDelivery(r2, "payment_intent.succeeded") /\ Done(r2)
        /\ requests[r1].pi_id = "pi_1" /\ requests[r2].pi_id = "pi_1"
    /\ Initial(1)
    /\ \E i \in TransactionsOf(transactions, "pi_1") :
        bookings[1].confirmed_at < transactions[i].created_at

\* a cancel_booking request that read the booking in a terminal status
CancelSawTerminal(r) ==
    IsCancel(r) /\ Started(r) /\ requests[r].seen \in Terminal

\* C10: a cancel_booking request that finds the booking cancelled or
\* completed is answered 400 without running its UPDATE, and the step that
\* answers it leaves status, cancelled_at and updated_at of every booking
\* as they were.
C10_CancelOfTerminalBookingIsRejected ==
    /\ [](\A r \in DOMAIN requests :
            CancelSawTerminal(r)
            => /\ Done(r)
               /\ requests[r].resp = BAD_REQUEST
               /\ requests[r].rows = 0
               /\ requests[r].queries <= 2)
    /\ [][\A r \in DOMAIN requests :
            (/\ requests[r].pc = "idle"
             /\ requests'[r].kind = "cancel_booking"
             /\ requests'[r].booking_id \in DOMAIN bookings
             /\ bookings[requests'[r].booking_id].status \in Terminal)
            => /\ requests'[r].pc = "done"
               /\ requests'[r].resp \in {BAD_REQUEST, FORBIDDEN}
               /\ requests'[r].user \in {"client", "member"}
                    => requests'[r].resp = BAD_REQUEST
               /\ bookings' = bookings]_vars

C10_Witness ==
    \E r \in DOMAIN requests :
        /\ CancelSawTerminal(r)
        /\ requests[r].seen = "completed"
        /\ requests[r].resp = BAD_REQUEST

\* request r runs its guarded UPDATE in this step
RunsUpdate(r, kind) ==
    /\ requests[r].kind = kind
    /\ requests[r].pc = "update"
    /\ requests'[r].pc = "done"

\* C11: cancel_booking answers 200 only when its own UPDATE changed one row;
\* the UPDATE of a cancel that read pending or confirmed either finds the
\* booking still pending or confirmed, sets it cancelled and is answered
\* 200, or finds it moved out of these statuses by another request, changes
\* no row and is answered with the conflict error 409.
C11_CancelSucceedsOnlyByItsOwnUpdate ==
    /\ [](\A r \in DOMAIN requests :
            (IsCancel(r) /\ Done(r) /\ requests[r].resp = OK)
                => requests[r].rows = 1)
    /\ [][\A r \in DOMAIN requests :
            RunsUpdate(r, "cancel_booking")
            => LET id == requests[r].booking_id IN
               IF bookings[id].status \in {"pending", "confirmed"}
               THEN /\ bookings'[id].status = "cancelled"
                    /\ requests'[r].rows = 1
                    /\ requests'[r].resp = OK
               ELSE /\ bookings' = bookings
                    /\ requests'[r].rows = 0
                    /\ requests'[r].resp = CONFLICT]_vars

\* a cancel that read the booking as confirmed and lost it to another request
C11_Witness ==
    \E r \in DOMAIN requests :
        /\ IsCancel(r) /\ Done(r)
        /\ requests[r].seen = "confirmed"
        /\ requests[r].rows = 0
        /\ requests[r].resp = CONFLICT
        /\ bookings[requests[r].booking_id].status = "completed"

\* C12: confirm_booking by a center member is rejected with 400, without an
\* UPDATE, when the status it reads is not pending; its UPDATE either
\* changes the row of a pending booking, which then is confirmed with
\* confirmed_at set, and is answered 200, or changes no row and is answered
\* with the conflict error 409.
C12_ConfirmOnlyFromPending ==
    /\ [](\A r \in DOMAIN requests :
            (IsConfirm(r) /\ requests[r].seen \notin {"none", "pending"})
                => /\ Done(r)
                   /\ requests[r].resp = BAD_REQUEST
                   /\ requests[r].rows = 0)
    /\ [][\A r \in DOMAIN requests :
            RunsUpdate(r, "confirm_booking")
            => LET id == requests[r].booking_id IN
               IF requests'[r].rows = 1
               THEN /\ bookings[id].status = "pending"
                    /\ bookings'[id].status = "confirmed"
                    /\ bookings'[id].confirmed_at # NULL
                    /\ requests'[r].resp = OK
               ELSE /\ requests'[r].rows = 0
                    /\ bookings[id].status # "pending"
                    /\ bookings' = bookings
                    /\ requests'[r].resp = CONFLICT]_vars

\* one confirm went through, one was rejected on a cancelled booking, one
\* lost the row between its read and its UPDATE
C12_Witness ==
    \E r1, r2, r3 \in DOMAIN requests :
        /\ IsConfirm(r1) /\ requests[r1].resp = OK /\ requests[r1].rows = 1
        /\ bookings[requests[r1].booking_id].confirmed_at # NULL
        /\ IsConfirm(r2) /\ requests[r2].seen = "confirmed"
        /\ requests[r2].resp = BAD_REQUEST
        /\ IsConfirm(r3) /\ requests[r3].seen = "pending"
        /\ requests[r3].resp = CONFLICT

\* a verified payment_intent.succeeded delivery handled in this step
PaymentSucceededArrives(r) ==
    /\ requests[r].pc = "idle"
    /\ requests'[r].kind = "stripe_webhook"
    /\ requests'[r].event = "payment_intent.succeeded"

\* C13: a verified payment_intent.succeeded delivery whose booking is not
\* pending, or is not in the store, changes no row: it leaves the bookings
\* and transactions tables as they were and is acknowledged with 200.
C13_PaymentForSettledBookingIsNoOp ==
    [][\A r \in DOMAIN requests :
        (/\ PaymentSucceededArrives(r)
         /\ ~(/\ Exists(bookings, requests'[r].booking_id)
              /\ bookings[requests'[r].booking_id].status = "pending"))
        => /\ bookings' = bookings
           /\ transactions' = transactions
           /\ requests'[r].rows = 0
           /\ requests'[r].pc = "done"
           /\ requests'[r].resp = OK]_vars

\* deliveries for a booking that was cancelled before and for a booking
\* that is not in the store, both acknowledged
C13_Witness ==
    \E r1, r2 \in DOMAIN requests :
        /\ IsDelivery(r1, "payment_intent.succeeded") /\ Done(r1)
        /\ Initial(requests[r1].booking_id)
        /\ bookings[requests[r1].booking_id].status = "cancelled"
        /\ bookings[requests[r1].booking_id].confirmed_at = NULL
        /\ requests[r1].rows = 0 /\ requests[r1].resp = OK
        /\ IsDelivery(r2, "payment_intent.succeeded") /\ Done(r2)
        /\ requests[r2].booking_id \in BookingIds \ DOMAIN bookings
        /\ requests[r2].rows = 0 /\ requests[r2].resp = OK

\* a webhook delivery that has been answered
Delivered(r) == requests[r].kind = "stripe_webhook" /\ Done(r)

CheckoutAnswered(r) ==
    /\ requests[r].pc # "done"
    /\ requests'[r].pc = "done"
    /\ requests'[r].kind = "stripe_webhook"
    /\ requests'[r].event = "checkout.session.completed"

C16_TransactionSplitsTheAmount ==
    \A i \in DOMAIN transactions :
        LET t == transactions[i]
            total == SessionAmount(t.stripe_payment_intent_id)[1]
            rate == bookings[t.booking_id].commission_rate
        IN  /\ t.amount * 100 = Decimal_from(total)
            /\ t.platform_fee * 100 = t.amount * rate
            /\ t.vendor_amount = t.amount - t.platform_fee
            /\ t.platform_fee + t.vendor_amount = t.amount
            /\ (total = 20000 /\ rate = 20)
                => /\ t.amount = Decimal_from(200)
                   /\ t.platform_fee = Decimal_from(40)
                   /\ t.vendor_amount = Decimal_from(160)

\* the sessions of both payment intents recorded, at rates 20 and 10
C16_Witness ==
    /\ \E i \in TransactionsOf(transactions, "pi_1") :
        transactions[i].platform_fee = Decimal_from(40)
    /\ \E i \in TransactionsOf(transactions, "pi_2") :
        /\ bookings[transactions[i].booking_id].commission_rate = 10
        /\ transactions[i].vendor_amount > 0

\* the whole percentage a stored configuration value stands for
RateOf(value) ==
    CASE value = NoValue -> 20
      [] value = "20" -> 20
      [] value = "10" -> 10

\* a create_booking request that inserted its booking
Created(r) == IsCreate(r) /\ Done(r) /\ requests[r].resp = CREATED

\* C17: the booking a create_booking request inserted has status pending,
\* total_price = price of the service * participants, commission_rate = the
\* platform rate that request read, and commission_amount = total_price *
\* commission_rate / 100; two participants at 100.00 and rate 20 give
\* 200.00 and 40.00.
C17_BookingIsPricedAtCreation ==
    \A r \in DOMAIN requests :
        Created(r)
        => LET b == bookings[requests[r].booking_id]
               q == requests[r]
           IN  /\ b.status = "pending"
               /\ b.participants = q.participants
               /\ b.unit_price = services[q.service_id].price
               /\ b.total_price = b.unit_price * b.participants
               /\ b.commission_rate = RateOf(q.value)
               /\ b.commission_amount * 100 = b.total_price * b.commission_rate
               /\ (b.unit_price = Decimal_from(100) /\ b.participants = 2
                        /\ b.commission_rate = 20)
                    => /\ b.total_price = Decimal_from(200)
                       /\ b.commission_amount = Decimal_from(40)

\* a booking priced at the rate 20 its request read, inserted after the
\* platform rate had been changed to 10
C17_Witness ==
    \E r \in DOMAIN requests :
        /\ Created(r)
        /\ requests[r].value = "20"
        /\ t_platform_config = "10"
        /\ bookings[requests[r].booking_id].commission_amount = Decimal_from(40)

\* C18: no step changes commission_rate, commission_amount or total_price
\* of a booking on record, a change of the stored platform rate in
\* particular changes no booking at all; and a create_booking request reads
\* the rate that is stored when it reads, so that only requests reading
\* after the change get the new rate.
C18_RateChangeIsNotRetroactive ==
    /\ [][\A id \in DOMAIN bookings :
            /\ bookings'[id].commission_rate = bookings[id].commission_rate
            /\ bookings'[id].commission_amount = bookings[id].commission_amount
            /\ bookings'[id].total_price = bookings[id].total_price]_vars
    /\ [][t_platform_config' # t_platform_config => bookings' = bookings]_vars
    /\ [][\A r \in DOMAIN requests :
            (IsCreate(r) /\ requests[r].pc = "rate" /\ requests'[r].pc = "insert")
            => requests'[r].rate = Some(RateOf(t_platform_config))]_vars

\* a booking from before the change still at rate 20, one created after the
\* change at rate 10
C18_Witness ==
    /\ Initial(1)
    /\ bookings[1].commission_rate = 20
    /\ bookings[1].commission_amount = Decimal_from(40)
    /\ t_platform_config = "10"
    /\ \E r \in DOMAIN requests :
        /\ Created(r)
        /\ requests[r].value = "10"
        /\ bookings[requests[r].booking_id].commission_rate = 10

\* a create_booking request that has read the platform's commission rate
ReadRate(r) == IsCreate(r) /\ requests[r].queries >= 4

\* C19: a create_booking request that finds no stored commission rate, or a
\* stored value that is not a decimal, goes on with the rate 20.
C19_RateDefaultsToTwenty ==
    \A r \in DOMAIN requests :
        (ReadRate(r) /\ requests[r].value \in {NoValue, "abc"})
            => requests[r].rate = Some(20)

\* the conditions under which a booking may be created for a request body
Acceptable(q) ==
    /\ q.service_id \in DOMAIN services
    /\ services[q.service_id].deleted_at = NULL
    /\ services[q.service_id].is_active = Some(TRUE)
    /\ services[q.service_id].center_id = q.center_id
    /\ q.participants >= 1
    /\ services[q.service_id].min_participants # None
        => q.participants >= services[q.service_id].min_participants[1]
    /\ services[q.service_id].max_capacity # None
        => q.participants <= services[q.service_id].max_capacity[1]
    /\ q.booking_date # "day0"
    /\ <<q.center_id, q.booking_date>> \notin blocked_dates

\* C20: a create_booking request whose service is absent, deleted, inactive
\* or of another center, whose participants are fewer than 1 or outside the
\* service's limits, or whose date is past or blocked, is answered with a
\* client error (400 or 404) at once and inserts nothing; every booking
\* inserted is inserted by a request that meets all these conditions.
C20_InvalidRequestInsertsNothing ==
    /\ [](\A r \in DOMAIN requests :
            (IsCreate(r) /\ ~Acceptable(requests[r]))
                => /\ Done(r)
                   /\ requests[r].resp \in {BAD_REQUEST, NOT_FOUND}
                   /\ requests[r].rows = 0
                   /\ requests[r].queries <= 2)
    /\ [][\A r \in DOMAIN requests :
            (requests[r].pc = "idle" /\ requests'[r].kind = "create_booking"
                /\ ~Acceptable(requests'[r]))
            => bookings' = bookings]_vars
    /\ [][Len(bookings') > Len(bookings)
            => \E r \in DOMAIN requests :
                /\ IsCreate(r) /\ requests[r].pc = "insert"
                /\ Acceptable(requests[r])
                /\ requests'[r].booking_id = Len(bookings')
                /\ bookings'[Len(bookings')].service_id = requests[r].service_id
                /\ bookings'[Len(bookings')].booking_date = requests[r].booking_date]_vars

\* a request for a blocked date and a request above the default capacity,
\* both rejected, and no booking inserted
C20_Witness ==
    /\ bookings = <<>>
    /\ \E r1, r2 \in DOMAIN requests :
        /\ IsCreate(r1) /\ requests[r1].booking_date = "day2"
        /\ requests[r1].queries = 2 /\ requests[r1].resp = BAD_REQUEST
        /\ IsCreate(r2) /\ requests[r2].participants = 21
        /\ requests[r2].service_id = "svc1" /\ requests[r2].center_id = "c1"
        /\ requests[r2].booking_date = "day1"
        /\ requests[r2].resp = BAD_REQUEST

IsAvailability(r) == requests[r].kind = "check_availability"

\* the non-deleted, non-cancelled bookings of a service on a date at an hour
Occupying(service_id, date, h) ==
    {i \in DOMAIN bookings :
        /\ bookings[i].service_id = service_id
        /\ bookings[i].booking_date = date
        /\ bookings[i].time_slot = h
        /\ bookings[i].status # "cancelled"
        /\ bookings[i].deleted_at = NULL}

\* C21: against a store that no request is writing, an availability query
\* for a known service and a well-formed date is answered 200; on a date in
\* the center's blocked dates it reports the date unavailable and lists no
\* slot; otherwise it lists every hour from 8 to 17 and marks an hour
\* available exactly when no non-deleted, non-cancelled booking holds
\* (service, date, hour), which is exactly when create_booking's own
\* double-booking check finds the slot free.
C21_AvailabilityMatchesTheStore ==
    \A r \in DOMAIN requests :
        (IsAvailability(r) /\ Done(r)) =>
            LET sv == requests[r].service_id
                d == requests[r].booking_date
            IN  IF d \notin {Calendar[i] : i \in DOMAIN Calendar}
                THEN requests[r].resp = BAD_REQUEST
                ELSE IF sv \notin DOMAIN services \/ services[sv].deleted_at # NULL
                THEN requests[r].resp = NOT_FOUND
                ELSE /\ requests[r].resp = OK
                     /\ IF <<services[sv].center_id, d>> \in blocked_dates
                        THEN ~requests[r].available /\ requests[r].slots = {}
                        ELSE /\ requests[r].available
                             /\ requests[r].slots = 8..17
                             /\ \A h \in 8..17 :
                                 /\ h \in requests[r].free
                                        <=> Occupying(sv, d, h) = {}
                                 /\ h \in requests[r].free
                                        <=> ~double_booking_exists(bookings, sv, d, h)

\* a query answered with the first hour taken and the last hour free although
\* a cancelled booking sits on it, and a query on a blocked date
C21_Witness ==
    /\ \E r \in DOMAIN requests :
        /\ IsAvailability(r) /\ Done(r) /\ requests[r].available
        /\ 8 \notin requests[r].free /\ 17 \in requests[r].free
        /\ \E i \in DOMAIN bookings :
            /\ bookings[i].service_id = requests[r].service_id
            /\ bookings[i].booking_date = requests[r].booking_date
            /\ bookings[i].time_slot = 17
            /\ bookings[i].status = "cancelled"
            /\ bookings[i].deleted_at = NULL
    /\ \E r \in DOMAIN requests :
        /\ IsAvailability(r) /\ Done(r) /\ requests[r].resp = OK
        /\ ~requests[r].available

IsCheckout(r) == requests[r].kind = "checkout_booking"

\* the non-deleted transactions of a booking that record a payment
SucceededOf(ts, id) ==
    {i \in DOMAIN ts : /\ ts[i].booking_id = id
                       /\ ts[i].status = "succeeded"
                       /\ ts[i].deleted_at = NULL}

\* request r creates its session in this step
CreatesSession(r) ==
    /\ IsCheckout(r) /\ requests[r].pc = "session"
    /\ Len(stripe'.sessions) = Len(stripe.sessions) + 1

\* C22: a checkout creates a payment session only when the requester is the
\* booking's client and the status it read is pending, and a request by
\* anyone else or for a booking at another status is answered with a client
\* error; so no session is ever created for a booking that is cancelled or
\* that has already been paid, that is, has a succeeded transaction.
C22_PaidOrCancelledIsNeverCheckedOut ==
    [][\A r \in DOMAIN requests :
        /\ (requests[r].pc = "idle" /\ IsCheckout(r)') =>
              LET id == requests'[r].booking_id IN
              IF /\ Found(bookings, id)
                 /\ requests'[r].user = "client"
                 /\ bookings[id].status = "pending"
              THEN requests'[r].seen = "pending"
              ELSE /\ Done(r)'
                   /\ requests'[r].resp \in {BAD_REQUEST, FORBIDDEN, NOT_FOUND}
        /\ CreatesSession(r) =>
              /\ requests[r].user = "client"
              /\ requests[r].seen = "pending"
              /\ bookings[requests[r].booking_id].status # "cancelled"
              /\ SucceededOf(transactions, requests[r].booking_id) = {}]_vars

\* C23: a checkout request, answered with success or with an error, leaves
\* every booking row and every transaction row as it was; a transaction row
\* is inserted only by the insert of a verified checkout.session.completed
\* delivery, and a transaction becomes refunded only by a verified
\* charge.refunded delivery for its payment intent.
C23_CheckoutWritesNothing ==
    [][/\ (\E r \in DOMAIN requests :
                IsCheckout(r)' /\ requests'[r] # requests[r])
            => bookings' = bookings /\ transactions' = transactions
       /\ Len(transactions') # Len(transactions)
            => /\ Len(transactions') = Len(transactions) + 1
               /\ \E r \in DOMAIN requests :
                    /\ IsDelivery(r, "checkout.session.completed")
                    /\ requests[r].sig = "valid"
                    /\ requests[r].pc = "insert" /\ Done(r)'
                    /\ transactions'[Len(transactions')].stripe_payment_intent_id
                            = requests[r].pi_id
       /\ \A i \in DOMAIN transactions' :
            (/\ transactions'[i].status = "refunded"
             /\ i \in DOMAIN transactions => transactions[i].status # "refunded")
            => /\ i \in DOMAIN transactions
               /\ \E r \in DOMAIN requests :
                    /\ requests[r].pc = "idle"
                    /\ IsDelivery(r, "charge.refunded")'
                    /\ requests'[r].sig = "valid"
                    /\ requests'[r].pi_id = transactions[i].stripe_payment_intent_id]_vars

\* a session was created and paid, its transaction recorded and then refunded,
\* with the booking's row as it was before the checkout
C23_Witness ==
    /\ \E r \in DOMAIN requests :
        IsCheckout(r) /\ Done(r) /\ requests[r].resp = OK /\ requests[r].booking_id = 1
    /\ \E r \in DOMAIN requests :
        IsCheckout(r) /\ Done(r) /\ requests[r].resp = FORBIDDEN
    /\ bookings = PaymentBookings
    /\ Len(transactions) = 1
    /\ transactions[1].status = "refunded"

\* the checkout read the booking as the client and found it pending
PassedTheGuards(r) ==
    IsCheckout(r) /\ Started(r) /\ requests[r].seen = "pending"

\* C24: for a booking whose total_price and commission_amount are whole
\* numbers of cents, however many decimal places they are stored with, the
\* conversion succeeds and yields price * 100 and commission * 100 cents;
\* the checkout is refused at the conversion only when one of the two has a
\* fraction of a cent.
C24_WholeCentsConvertExactly ==
    \A r \in DOMAIN requests :
        PassedTheGuards(r) =>
            LET row == bookings[requests[r].booking_id]
                refused == /\ Done(r) /\ requests[r].queries = 1
                           /\ requests[r].resp = INTERNAL_SERVER_ERROR
            IN  IF row.total_price % 100 = 0 /\ row.commission_amount % 100 = 0
                THEN /\ ~refused
                     /\ requests[r].amount_total = Some(row.total_price \div 100)
                     /\ requests[r].fee = Some(row.commission_amount \div 100)
                ELSE refused

C29_AtMostOneSucceededTransaction ==
    \A id \in DOMAIN bookings :
        Cardinality(SucceededOf(transactions, id)) <= 1

IsPayout(r) == requests[r].kind = "request_payout"

\* the net revenue of a center: total_price - commission_amount summed over
\* its non-deleted completed bookings
RECURSIVE NetRevenueUpTo(_, _)
NetRevenueUpTo(c, n) ==
    IF n = 0 THEN 0
    ELSE NetRevenueUpTo(c, n - 1)
         + (IF /\ services[bookings[n].service_id].center_id = c
               /\ bookings[n].status = "completed"
               /\ bookings[n].deleted_at = NULL
            THEN bookings[n].total_price - bookings[n].commission_amount
            ELSE 0)

NetRevenue(c) == NetRevenueUpTo(c, Len(bookings))

\* the cents transferred to a center so far
RECURSIVE TransferredUpTo(_, _)
TransferredUpTo(c, n) ==
    IF n = 0 THEN 0
    ELSE TransferredUpTo(c, n - 1)
         + (IF stripe.transfers[n].center_id = c
            THEN stripe.transfers[n].amount ELSE 0)

Transferred(c) == TransferredUpTo(c, Len(stripe.transfers))

\* C25: a payout request goes on to the processor's transfer only when its
\* amount is greater than zero and at most the center's available balance,
\* the net revenue of the center's non-deleted completed bookings, when the
\* request reads it; a request whose amount is not is answered with a client
\* error; and a transfer is made only by a request that went on, for exactly
\* the requested amount.
C25_TransferOnlyWithinBalance ==
    [][\A r \in DOMAIN requests :
        /\ (requests[r].pc = "idle" /\ IsPayout(r)') =>
              LET amount == requests'[r].amount
                  within == amount > 0 /\ amount <= NetRevenue(requests'[r].center_id)
              IN  /\ stripe' = stripe
                  /\ requests'[r].pc = "transfer" => within
                  /\ ~within => /\ Done(r)'
                                /\ requests'[r].resp \in {BAD_REQUEST, FORBIDDEN,
                                                          NOT_FOUND}
        /\ (IsPayout(r) /\ requests'[r] # requests[r]
                /\ stripe'.transfers # stripe.transfers) =>
              /\ requests[r].pc = "transfer" /\ requests'[r].resp = CREATED
              /\ Len(stripe'.transfers) = Len(stripe.transfers) + 1
              /\ stripe'.transfers[Len(stripe'.transfers)].amount * 100
                    = requests[r].amount
        /\ (IsPayout(r)' /\ requests'[r] # requests[r]
                /\ stripe'.transfers = stripe.transfers)
              => requests'[r].resp # CREATED]_vars

\* a transfer of the whole balance was made, and a request for more than the
\* balance was refused
C25_Witness ==
    /\ \E i \in DOMAIN stripe.transfers : stripe.transfers[i].amount = 16000
    /\ \E r \in DOMAIN requests :
        /\ IsPayout(r) /\ Done(r) /\ requests[r].resp = BAD_REQUEST
        /\ requests[r].amount = Decimal_from(200)
        /\ requests[r].balance = Decimal_from(160)
    /\ NetRevenue("c1") = Decimal_from(160)

\* C26: the cents transferred to a center by its payout requests, taken
\* together, never exceed the net revenue of the center's completed bookings.
C26_PayoutsNeverExceedNetRevenue ==
    \A c \in Centers : Transferred(c) * 100 <= NetRevenue(c)

\* C28: in every reachable state a booking with status confirmed has its
\* confirmed_at timestamp set and a booking with status cancelled has its
\* cancelled_at timestamp set, whichever request gave it that status.
C28_StatusCarriesItsTimestamp ==
    \A id \in DOMAIN bookings :
        /\ bookings[id].status = "confirmed" => bookings[id].confirmed_at # NULL
        /\ bookings[id].status = "cancelled" => bookings[id].cancelled_at # NULL

\* C30: once the checkout.session.completed delivery and the charge.refunded
\* delivery of a payment intent whose booking exists have both been handled,
\* in whichever order, the payment intent has a transaction and its status
\* is refunded.
C30_RefundWinsInEitherOrder ==
    \A p \in PaymentIntents :
        (/\ Initial(MetadataBooking(p))
         /\ Handled("checkout.session.completed", p)
         /\ Handled("charge.refunded", p))
        => /\ TransactionsOf(transactions, p) # {}
           /\ \A i \in TransactionsOf(transactions, p) :
                transactions[i].status = "refunded"

\* the second half of C30: a transaction that is refunded stays refunded
C30_RefundedIsFinal ==
    [][\A i \in DOMAIN transactions :
        transactions[i].status = "refunded"
            => transactions'[i].status = "refunded"]_vars

====
